---------------------------- MODULE Spec2Model ----------------------------
(***************************************************************************)
(* A model of the tree-walking interpreter: the scope chain (env.rs), the  *)
(* evaluator of expressions and statements (token.rs), the recursive       *)
(* descent parser (parser.rs) and the "run" driver (main.rs).              *)
(*                                                                         *)
(* Numbers are f64 in the source.  The model keeps them as integers: the   *)
(* programs it runs use small integral literals and never divide, so no    *)
(* fractional, infinite or NaN value arises.                               *)
(***************************************************************************)
EXTENDS Integers, Sequences, FiniteSets, TLC

VARIABLES
    command,      \* the subcommand of main: "tokenize" or "run"
    source,       \* Scanner.source: the characters of the file
    chars,        \* Scanner.chars: the characters not yet consumed
    line,         \* Scanner.line
    tokens,       \* Scanner.tokens, and Parser.tokens once the scan is done
    current,      \* Parser.current: the cursor into tokens
    had_error,    \* the flag of the reporter of the stage at work:
                  \* Scanner.report.had_error, then Parser.reporter.had_error
    statements,   \* Parser.stmts: the statements parsed from tokens
    phase,        \* position of main: "scan", "parse", "run" or "done"
    pc,           \* index of the next top-level statement of main's loop
    store,        \* the scopes alive, store[h] is the Env behind handle h
    environment,  \* handle of the environment the next statement runs in
    out,          \* lines written to standard output
    err,          \* lines written to standard error
    exitcode,     \* "none" while running, else the ExitCode main returned
    last          \* the step taken last: the statement and its result

vars == <<command, source, chars, line, tokens, current, had_error, statements,
          phase, pc, store, environment, out, err, exitcode, last>>

\* the variables of the scanner and of the dispatch on the subcommand
scan_vars == <<command, source, chars, line>>

-----------------------------------------------------------------------------
(* Bounds *)

MaxDepth == 2     \* scopes alive at once (global scope plus open blocks)
MaxOut == 1       \* lines of standard output
MaxNest == 2      \* blocks nested in one statement

-----------------------------------------------------------------------------
(* token.rs: Value *)

Number(n) == [t |-> "Number", n |-> n]
Boolean(b) == [t |-> "Boolean", b |-> b]
String(s) == [t |-> "String", s |-> s]
Nil == [t |-> "Nil"]

\* decimal digits of a natural number
RECURSIVE NatStr(_)
NatStr(n) ==
    LET d == <<"0", "1", "2", "3", "4", "5", "6", "7", "8", "9">>[(n % 10) + 1]
    IN IF n < 10 THEN d ELSE NatStr(n \div 10) \o d

\* Display for Value: "{}" of an integral f64 has no fractional part
Value_fmt(v) ==
    CASE v.t = "Number" -> IF v.n < 0 THEN "-" \o NatStr(0 - v.n) ELSE NatStr(v.n)
      [] v.t = "Boolean" -> IF v.b THEN "true" ELSE "false"
      [] v.t = "String" -> v.s
      [] v.t = "Nil" -> "nil"

-----------------------------------------------------------------------------
(* env.rs: Env.  A scope is [values, enclosing]; enclosing is the handle   *)
(* of the enclosing scope, NoEnv for None.                                  *)

NoEnv == 0

EmptyValues == [n \in {} |-> Nil]

\* HashMap::insert
Insert(values, name, value) ==
    [n \in (DOMAIN values) \cup {name} |-> IF n = name THEN value ELSE values[n]]

\* Env::new: a scope without bindings and without enclosing scope
Env_new == [values |-> EmptyValues, enclosing |-> NoEnv]

\* Env::with_enclosing: a fresh scope that refers to the enclosing one; the
\* result is the store with the scope allocated, its handle is Len of it
Env_with_enclosing(st, enclosing) ==
    Append(st, [values |-> EmptyValues, enclosing |-> enclosing])

\* the block environment goes out of scope: its scope is freed
Env_drop(st, h) == SubSeq(st, 1, h - 1)

\* mutant of Env::define: the binding always goes to the global scope
Env_define_global(st, h, name, value) ==
    [st EXCEPT ![1].values = Insert(@, name, value)]

\* Env::define
Env_define(st, h, name, value) ==
    [st EXCEPT ![h].values = Insert(@, name, value)]

UndefinedVariable(name) == "Undefined variable '" \o name \o "'."

\* Env::assign: [ok, store, msg]
RECURSIVE Env_assign(_, _, _, _)

\* mutant of Env::assign: a name the current scope lacks is inserted there
Env_assign_upsert(st, h, name, value) ==
    [ok |-> TRUE, store |-> [st EXCEPT ![h].values = Insert(@, name, value)],
     msg |-> ""]

\* mutant of Env::assign: a name no scope binds is created in the outermost
Env_assign_create(st, h, name, value) ==
    IF name \in DOMAIN st[h].values \/ st[h].enclosing = NoEnv
    THEN [ok |-> TRUE, store |-> [st EXCEPT ![h].values = Insert(@, name, value)],
          msg |-> ""]
    ELSE Env_assign(st, st[h].enclosing, name, value)

Env_assign(st, h, name, value) ==
    IF name \in DOMAIN st[h].values
    THEN [ok |-> TRUE, store |-> [st EXCEPT ![h].values = Insert(@, name, value)],
          msg |-> ""]
    ELSE IF st[h].enclosing # NoEnv
    THEN Env_assign(st, st[h].enclosing, name, value)
    ELSE [ok |-> FALSE, store |-> st, msg |-> UndefinedVariable(name)]

\* Env::get: [ok, value, msg]
RECURSIVE Env_get(_, _, _)

\* mutant of Env::get: the enclosing scopes are not searched
Env_get_local(st, h, name) ==
    IF name \in DOMAIN st[h].values
    THEN [ok |-> TRUE, value |-> st[h].values[name], msg |-> ""]
    ELSE [ok |-> FALSE, value |-> Nil, msg |-> UndefinedVariable(name)]

Env_get(st, h, name) ==
    IF name \in DOMAIN st[h].values
    THEN [ok |-> TRUE, value |-> st[h].values[name], msg |-> ""]
    ELSE IF st[h].enclosing # NoEnv
    THEN Env_get(st, st[h].enclosing, name)
    ELSE [ok |-> FALSE, value |-> Nil, msg |-> UndefinedVariable(name)]

-----------------------------------------------------------------------------
(* token.rs: Token, Expr, Stmt *)

TT(k) == [k |-> k]
TTNumber(n) == [k |-> "Number", n |-> n]
TTString(s) == [k |-> "String", s |-> s]

Token(tt, lexeme, at) == [token_type |-> tt, lexeme |-> lexeme, line |-> at]

Expr_Binary(left, operator, right) ==
    [k |-> "Binary", left |-> left, operator |-> operator, right |-> right]
Expr_Literal(token) == [k |-> "Literal", token |-> token]
Expr_Unary(operator, expr) == [k |-> "Unary", operator |-> operator, expr |-> expr]
Expr_Group(stmt) == [k |-> "Group", stmt |-> stmt]

Stmt_Block(stmts) == [k |-> "Block", stmts |-> stmts]
Stmt_Print(stmt) == [k |-> "Print", stmt |-> stmt]
Stmt_If(condition, if_branch, else_branch) ==
    [k |-> "If", condition |-> condition, if_branch |-> if_branch,
     else_branch |-> else_branch]      \* else_branch: <<>> or <<stmt>>
Stmt_Declare(var, stmt) == [k |-> "Declare", var |-> var, stmt |-> stmt]
Stmt_Assign(var, stmt) == [k |-> "Assign", var |-> var, stmt |-> stmt]
Stmt_Expr(expr) == [k |-> "Expr", expr |-> expr]

\* no statement: the node of a failed parse, the statement of a step that
\* evaluates none
NoStmt == [k |-> "None"]

-----------------------------------------------------------------------------
(* token.rs: Expr::evaluate, Stmt::evaluate.  The evaluator works on a     *)
(* world w = [store, out, err] and returns [ok, value, code, w]:           *)
(* Ok(value) or Err(ExitCode::from(code)).                                 *)

Ok(value, w) == [ok |-> TRUE, value |-> value, code |-> 0, w |-> w]
Err(code, msg, w) ==
    [ok |-> FALSE, value |-> Nil, code |-> code,
     w |-> [w EXCEPT !.err = Append(@, msg)]]

\* the patterns Value::Boolean(true) | Value::Number(_) | Value::String(_)
Truthy(v) == \/ v.t = "Number"
             \/ v.t = "String"
             \/ (v.t = "Boolean" /\ v.b)

\* an equality that compares what the values print as
Value_eq_printed(left, right) == Value_fmt(left) = Value_fmt(right)

\* the derived PartialEq of Value: the same variant with the same payload
Value_eq(left, right) == left = right

\* a `+` that concatenates what the operands print as when they are not two
\* numbers
BinaryPlus_coerce(left, right, w) ==
    IF left.t = "Number" /\ right.t = "Number"
    THEN Ok(Number(left.n + right.n), w)
    ELSE Ok(String(Value_fmt(left) \o Value_fmt(right)), w)

\* the three arms of TokenType::Plus
BinaryPlus(left, right, w) ==
    IF left.t = "Number" /\ right.t = "Number"
    THEN Ok(Number(left.n + right.n), w)
    ELSE IF left.t = "String" /\ right.t = "String"
    THEN Ok(String(left.s \o right.s), w)
    ELSE Err(70, "Operands must be two numbers or two strings.", w)

\* the match on (operator, left, right) of a Binary expression
BinaryOp(op, left, right, w) ==
    LET nums == left.t = "Number" /\ right.t = "Number" IN
    CASE op.k = "Or" ->
            IF Truthy(left) THEN Ok(left, w)
            ELSE IF Truthy(right) THEN Ok(right, w)
            ELSE Ok(Boolean(FALSE), w)
      [] op.k = "Plus" -> BinaryPlus(left, right, w)
      [] op.k = "Minus" /\ nums -> Ok(Number(left.n - right.n), w)
      [] op.k = "Star" /\ nums -> Ok(Number(left.n * right.n), w)
      [] op.k = "Slash" /\ nums -> Ok(Number(left.n \div right.n), w)
      [] op.k = "Greater" /\ nums -> Ok(Boolean(left.n > right.n), w)
      [] op.k = "GreaterEqual" /\ nums -> Ok(Boolean(left.n >= right.n), w)
      [] op.k = "Less" /\ nums -> Ok(Boolean(left.n < right.n), w)
      [] op.k = "LessEqual" /\ nums -> Ok(Boolean(left.n <= right.n), w)
      [] op.k \in {"Minus", "Star", "Slash", "Greater", "GreaterEqual", "Less",
                   "LessEqual"} /\ ~nums ->
            Err(70, "Operand must be a number.", w)
      [] op.k = "EqualEqual" -> Ok(Boolean(Value_eq(left, right)), w)
      [] op.k = "BangEqual" -> Ok(Boolean(~Value_eq(left, right)), w)
      [] OTHER -> Err(65, "Unsupported binary expression.", w)

\* the match on the operator of a Unary expression
UnaryOp(op, v, w) ==
    CASE op.k = "Minus" ->
            IF v.t = "Number" THEN Ok(Number(0 - v.n), w)
            ELSE Err(70, "Operand must be a number.", w)
      [] op.k = "Bang" ->
            IF v.t = "Boolean" THEN Ok(Boolean(~v.b), w)
            ELSE IF v.t = "Number" THEN Ok(Boolean(FALSE), w)
            ELSE IF v.t = "Nil" THEN Ok(Boolean(TRUE), w)
            ELSE Err(65, "Operand must be a number or boolean.", w)
      [] OTHER -> Err(65, "Unsupported unary expression.", w)

\* the match on the token of a Literal expression
LiteralValue(token, env, w) ==
    LET tt == token.token_type IN
    CASE tt.k = "Number" -> Ok(Number(tt.n), w)
      [] tt.k = "String" -> Ok(String(tt.s), w)
      [] tt.k = "True" -> Ok(Boolean(TRUE), w)
      [] tt.k = "False" -> Ok(Boolean(FALSE), w)
      [] tt.k = "Nil" -> Ok(Nil, w)
      [] tt.k = "Identifier" ->
            LET g == Env_get(w.store, env, token.lexeme) IN
            IF g.ok THEN Ok(g.value, w) ELSE Err(70, g.msg, w)
      [] OTHER -> Err(65, "Unsupported literal expression.", w)

RECURSIVE Expr_evaluate(_, _, _), Stmt_evaluate(_, _, _), Block_evaluate(_, _, _, _)

\* an evaluation of Binary that takes the right operand first
Expr_evaluate_right_first(e, env, w) ==
    CASE e.k = "Binary" ->
            LET right == Expr_evaluate(e.right, env, w) IN
            IF ~right.ok THEN right
            ELSE LET left == Expr_evaluate(e.left, env, right.w) IN
                 IF ~left.ok THEN left
                 ELSE BinaryOp(e.operator.token_type, left.value, right.value,
                               left.w)
      [] e.k = "Group" -> Stmt_evaluate(e.stmt, env, w)
      [] e.k = "Literal" -> LiteralValue(e.token, env, w)
      [] e.k = "Unary" ->
            LET expr == Expr_evaluate(e.expr, env, w) IN
            IF ~expr.ok THEN expr
            ELSE UnaryOp(e.operator.token_type, expr.value, expr.w)

Expr_evaluate(e, env, w) ==
    CASE e.k = "Binary" ->
            LET left == Expr_evaluate(e.left, env, w) IN
            IF ~left.ok THEN left
            ELSE LET right == Expr_evaluate(e.right, env, left.w) IN
                 IF ~right.ok THEN right
                 ELSE BinaryOp(e.operator.token_type, left.value, right.value,
                               right.w)
      [] e.k = "Group" -> Stmt_evaluate(e.stmt, env, w)
      [] e.k = "Literal" -> LiteralValue(e.token, env, w)
      [] e.k = "Unary" ->
            LET expr == Expr_evaluate(e.expr, env, w) IN
            IF ~expr.ok THEN expr
            ELSE UnaryOp(e.operator.token_type, expr.value, expr.w)

\* Block arm that goes on to the next statement after an error
Block_evaluate_resume(stmts, i, block_environment, w) ==
    IF i > Len(stmts) THEN Ok(Nil, w)
    ELSE Block_evaluate(stmts, i + 1, block_environment,
                        Stmt_evaluate(stmts[i], block_environment, w).w)

\* the loop of the Block arm from statement i on: the first error ends it
Block_evaluate(stmts, i, block_environment, w) ==
    IF i > Len(stmts) THEN Ok(Nil, w)
    ELSE LET r == Stmt_evaluate(stmts[i], block_environment, w) IN
         IF ~r.ok THEN r
         ELSE Block_evaluate(stmts, i + 1, block_environment, r.w)

Stmt_evaluate(s, env, w) ==
    CASE s.k = "Block" ->
            LET block_environment == Len(w.store) + 1
                r == Block_evaluate(s.stmts, 1, block_environment,
                        [w EXCEPT !.store = Env_with_enclosing(@, env)])
            IN [r EXCEPT !.w.store = Env_drop(@, block_environment)]
      [] s.k = "Print" ->
            LET value == Stmt_evaluate(s.stmt, env, w) IN
            IF ~value.ok THEN value
            ELSE Ok(Nil, [value.w EXCEPT !.out = Append(@, Value_fmt(value.value))])
      [] s.k = "If" ->
            LET condition == Stmt_evaluate(s.condition, env, w) IN
            IF ~condition.ok THEN condition
            ELSE IF Truthy(condition.value)
            THEN Stmt_evaluate(s.if_branch, env, condition.w)
            ELSE IF s.else_branch # <<>>
            THEN Stmt_evaluate(s.else_branch[1], env, condition.w)
            ELSE Ok(Nil, condition.w)
      [] s.k = "Declare" ->
            LET value == Stmt_evaluate(s.stmt, env, w) IN
            IF ~value.ok THEN value
            ELSE Ok(Nil, [value.w EXCEPT
                            !.store = Env_define(@, env, s.var, value.value)])
      [] s.k = "Assign" ->
            LET value == Stmt_evaluate(s.stmt, env, w)
                a == Env_assign(value.w.store, env, s.var, value.value)
            IN IF ~value.ok THEN value
               ELSE IF ~a.ok THEN Err(70, a.msg, value.w)
               ELSE Ok(value.value, [value.w EXCEPT !.store = a.store])
      [] s.k = "Expr" -> Expr_evaluate(s.expr, env, w)


-----------------------------------------------------------------------------
(* scanner.rs and interpreter.rs: the scanner.  The two files hold the same *)
(* tokenize, interpreter.rs with the arm of identifiers and reserved words. *)
(* A source is a sequence of characters, each a string of length one; a    *)
(* peeked character is <<>> for None and <<c>> for Some(c).  The scanner   *)
(* state sc is [chars, tokens, line, had_error, err].  Number literals of  *)
(* the sources explored have no fractional part.                           *)

Digits == {"0", "1", "2", "3", "4", "5", "6", "7", "8", "9"}

Letters ==
    {"a", "b", "c", "d", "e", "f", "g", "h", "i", "j", "k", "l", "m", "n", "o",
     "p", "q", "r", "s", "t", "u", "v", "w", "x", "y", "z"}

\* char::is_whitespace, the newline apart
Whitespace == {" ", "\t", "\r"}

\* the string of a sequence of characters
RECURSIVE Concat(_)
Concat(cs) == IF cs = <<>> THEN "" ELSE cs[1] \o Concat(Tail(cs))

\* str::parse of the digits before the fraction
RECURSIVE ParseNumber(_, _)
ParseNumber(cs, n) ==
    IF cs = <<>> \/ cs[1] \notin Digits THEN n
    ELSE ParseNumber(Tail(cs),
                     10 * n + (CHOOSE d \in 0..9 : NatStr(d) = cs[1]))

\* Scanner::peek
Scanner_peek(cs) == IF cs = <<>> THEN <<>> ELSE <<cs[1]>>

\* the loop of a comment: up to the newline, which stays
RECURSIVE Scanner_comment(_)
Scanner_comment(cs) ==
    IF Scanner_peek(cs) # <<"\n">> /\ Scanner_peek(cs) # <<>>
    THEN Scanner_comment(Tail(cs))
    ELSE cs

\* a string loop that leaves the line counter alone
RECURSIVE Scanner_string_one_line(_, _)
Scanner_string_one_line(cs, ln) ==
    IF Scanner_peek(cs) # <<"\"">> /\ Scanner_peek(cs) # <<>>
    THEN Scanner_string_one_line(Tail(cs), ln)
    ELSE [chars |-> cs, line |-> ln]

\* the loop of a string: up to the closing quote or the end, counting the
\* newlines; [chars, line]
RECURSIVE Scanner_string(_, _)
Scanner_string(cs, ln) ==
    IF Scanner_peek(cs) # <<"\"">> /\ Scanner_peek(cs) # <<>>
    THEN Scanner_string(Tail(cs), IF Scanner_peek(cs) = <<"\n">> THEN ln + 1 ELSE ln)
    ELSE [chars |-> cs, line |-> ln]

\* the loop over digits
RECURSIVE Scanner_digits(_)
Scanner_digits(cs) ==
    IF cs # <<>> /\ cs[1] \in Digits THEN Scanner_digits(Tail(cs)) ELSE cs

\* the arm of a digit: digits, then `.` and digits when a digit follows the `.`
Scanner_number(cs) ==
    LET whole == Scanner_digits(cs) IN
    IF Scanner_peek(whole) = <<".">> /\ Len(whole) >= 2 /\ whole[2] \in Digits
    THEN Scanner_digits(Tail(whole))
    ELSE whole

\* the loop over the characters of an identifier
RECURSIVE Scanner_identifier(_)
Scanner_identifier(cs) ==
    IF cs # <<>> /\ cs[1] \in Letters \cup Digits \cup {"_"}
    THEN Scanner_identifier(Tail(cs))
    ELSE cs

\* the match on the lexeme of an identifier
Keyword(lexeme) ==
    CASE lexeme = "and" -> "And"
      [] lexeme = "class" -> "Class"
      [] lexeme = "else" -> "Else"
      [] lexeme = "false" -> "False"
      [] lexeme = "for" -> "For"
      [] lexeme = "fun" -> "Fun"
      [] lexeme = "if" -> "If"
      [] lexeme = "nil" -> "Nil"
      [] lexeme = "or" -> "Or"
      [] lexeme = "print" -> "Print"
      [] lexeme = "return" -> "Return"
      [] lexeme = "super" -> "Super"
      [] lexeme = "this" -> "This"
      [] lexeme = "true" -> "True"
      [] lexeme = "var" -> "Var"
      [] lexeme = "while" -> "While"
      [] OTHER -> "Identifier"

\* Scanner::lexeme: the source text at start..current, as characters; the
\* offsets are 0-based and current is what the iterator has consumed
Scanner_lexeme(src, start, cs) == SubSeq(src, start + 1, Len(src) - Len(cs))

\* Scanner::add_token: the token of kind k with the lexeme at start..current
Scanner_add_token(src, start, cs, k, ln) ==
    LET lexeme == Scanner_lexeme(src, start, cs) IN
    Token(CASE k = "String" ->
                  TTString(Concat(SubSeq(lexeme, 2, Len(lexeme) - 1)))
            [] k = "Number" -> TTNumber(ParseNumber(lexeme, 0))
            [] OTHER -> TT(k),
          Concat(lexeme), ln)

\* a report that ends the scan
ScanReport_error_stop(sc, ln, msg) ==
    [sc EXCEPT !.chars = <<>>, !.had_error = TRUE,
               !.err = Append(@, "[line " \o NatStr(ln) \o "] Error: " \o msg)]

\* ScanReport::error
ScanReport_error(sc, ln, msg) ==
    [sc EXCEPT !.had_error = TRUE,
               !.err = Append(@, "[line " \o NatStr(ln) \o "] Error: " \o msg)]

\* the tokens of one character, and of that character followed by `=`
SingleTokens ==
    [c \in {"(", ")", "{", "}", ",", ".", "-", "+", ";", "*"} |->
       CASE c = "(" -> "LeftParen"
         [] c = ")" -> "RightParen"
         [] c = "{" -> "LeftBrace"
         [] c = "}" -> "RightBrace"
         [] c = "," -> "Comma"
         [] c = "." -> "Dot"
         [] c = "-" -> "Minus"
         [] c = "+" -> "Plus"
         [] c = ";" -> "SemiColon"
         [] c = "*" -> "Star"]

PairTokens ==
    [c \in {"=", "!", "<", ">"} |->
       CASE c = "=" -> <<"Equal", "EqualEqual">>
         [] c = "!" -> <<"Bang", "BangEqual">>
         [] c = "<" -> <<"Less", "LessEqual">>
         [] c = ">" -> <<"Greater", "GreaterEqual">>]

\* Scanner::tokenize, one turn of the loop: advance() has returned the
\* first character of sc.chars
Scanner_turn(src, sc) ==
    LET c == sc.chars[1]
        rest == Tail(sc.chars)
        start == Len(src) - Len(sc.chars)
        add(cs, k, ln) ==
            [sc EXCEPT !.chars = cs, !.line = ln,
                       !.tokens = Append(@, Scanner_add_token(src, start, cs, k, ln))]
        str == Scanner_string(rest, sc.line)
        word == Scanner_identifier(rest)
    IN CASE c \in DOMAIN SingleTokens -> add(rest, SingleTokens[c], sc.line)
         [] c \in DOMAIN PairTokens ->
               IF Scanner_peek(rest) = <<"=">>
               THEN add(Tail(rest), PairTokens[c][2], sc.line)
               ELSE add(rest, PairTokens[c][1], sc.line)
         [] c = "/" ->
               IF Scanner_peek(rest) = <<"/">>
               THEN [sc EXCEPT !.chars = Scanner_comment(rest)]
               ELSE add(rest, "Slash", sc.line)
         [] c = "\"" ->
               IF Scanner_peek(str.chars) = <<>>
               THEN ScanReport_error([sc EXCEPT !.chars = str.chars,
                                                !.line = str.line],
                                     str.line, "Unterminated string.")
               ELSE add(Tail(str.chars), "String", str.line)
         [] c \in Digits -> add(Scanner_number(rest), "Number", sc.line)
         [] c \in Letters \cup {"_"} ->
               add(word, Keyword(Concat(Scanner_lexeme(src, start, word))), sc.line)
         [] c = "\n" -> [sc EXCEPT !.chars = rest, !.line = @ + 1]
         [] c \in Whitespace -> [sc EXCEPT !.chars = rest]
         [] OTHER -> ScanReport_error([sc EXCEPT !.chars = rest], sc.line,
                                      "Unexpected character: " \o c)

\* an Eof token on the first line
Scanner_eof_first_line(ln) == Token(TT("Eof"), "", 1)

\* the Eof token pushed after the loop
Scanner_eof(ln) == Token(TT("Eof"), "", ln)

\* Scanner::new
Scanner_new(src) ==
    [chars |-> src, tokens |-> <<>>, line |-> 1, had_error |-> FALSE, err |-> <<>>]

\* Scanner::tokenize: the loop to its end, then Eof
RECURSIVE Scanner_tokenize(_, _)
Scanner_tokenize(src, sc) ==
    IF sc.chars = <<>> THEN [sc EXCEPT !.tokens = Append(@, Scanner_eof(sc.line))]
    ELSE Scanner_tokenize(src, Scanner_turn(src, sc))

\* token.rs, Display for TokenType
TokenType_fmt(k) ==
    CASE k = "LeftParen" -> "LEFT_PAREN"
      [] k = "RightParen" -> "RIGHT_PAREN"
      [] k = "LeftBrace" -> "LEFT_BRACE"
      [] k = "RightBrace" -> "RIGHT_BRACE"
      [] k = "Comma" -> "COMMA"
      [] k = "Dot" -> "DOT"
      [] k = "Minus" -> "MINUS"
      [] k = "Plus" -> "PLUS"
      [] k = "SemiColon" -> "SEMICOLON"
      [] k = "Star" -> "STAR"
      [] k = "Equal" -> "EQUAL"
      [] k = "EqualEqual" -> "EQUAL_EQUAL"
      [] k = "Bang" -> "BANG"
      [] k = "BangEqual" -> "BANG_EQUAL"
      [] k = "Less" -> "LESS"
      [] k = "LessEqual" -> "LESS_EQUAL"
      [] k = "Greater" -> "GREATER"
      [] k = "GreaterEqual" -> "GREATER_EQUAL"
      [] k = "Slash" -> "SLASH"
      [] k = "String" -> "STRING"
      [] k = "Number" -> "NUMBER"
      [] k = "Identifier" -> "IDENTIFIER"
      [] k = "And" -> "AND"
      [] k = "Class" -> "CLASS"
      [] k = "Else" -> "ELSE"
      [] k = "False" -> "FALSE"
      [] k = "For" -> "FOR"
      [] k = "Fun" -> "FUN"
      [] k = "If" -> "IF"
      [] k = "Nil" -> "NIL"
      [] k = "Or" -> "OR"
      [] k = "Print" -> "PRINT"
      [] k = "Return" -> "RETURN"
      [] k = "Super" -> "SUPER"
      [] k = "This" -> "THIS"
      [] k = "True" -> "TRUE"
      [] k = "Var" -> "VAR"
      [] k = "While" -> "WHILE"
      [] k = "Eof" -> "EOF"

\* token.rs, Display for Token: "{:?}" of an integral f64 ends in ".0"
Token_fmt(tok) ==
    LET tt == tok.token_type IN
    TokenType_fmt(tt.k) \o " " \o tok.lexeme \o " " \o
    (CASE tt.k = "String" -> tt.s
       [] tt.k = "Number" -> NatStr(tt.n) \o ".0"
       [] OTHER -> "null")

-----------------------------------------------------------------------------
(* parser.rs: Parser.  The parser state p is [current, had_error, err]:    *)
(* the cursor (0-based, as in the source), the flag of the ErrorReporter   *)
(* and the lines it wrote to standard error.  A parsing function returns   *)
(* [ok, node, p]: Ok(node) or Err(()).                                     *)

Stmt_While(condition, body) == [k |-> "While", condition |-> condition, body |-> body]
Stmt_For(initializer, condition, increment, body) ==
    [k |-> "For", initializer |-> initializer, condition |-> condition,
     increment |-> increment, body |-> body]     \* clauses: <<>> or <<stmt>>

\* Parser::new
Parser_new == [current |-> 0, had_error |-> FALSE, err |-> <<>>, panic |-> FALSE]

POk(node, p) == [ok |-> TRUE, node |-> node, p |-> p]
PErr(p) == [ok |-> FALSE, node |-> NoStmt, p |-> p]

\* self.tokens[i] with the 0-based index i; an index outside the list panics
TokenAt(toks, i) ==
    IF i + 1 \in DOMAIN toks THEN toks[i + 1]
    ELSE Token(TT("Panic"), "", 0)

\* the parser after self.tokens[i]: panic records an index outside the list,
\* or below zero in `self.current - 1` and `self.current - 2`
Indexed(p, toks, i) == [p EXCEPT !.panic = @ \/ (i + 1 \notin DOMAIN toks)]

\* ErrorReporter::error and ErrorReporter::report
Reporter_error(p, at, token, message) ==
    [p EXCEPT !.had_error = TRUE,
              !.err = Append(@, "[line " \o NatStr(at) \o "] Error at '" \o token
                                \o "': " \o message)]

Parser_peek(toks, p) == TokenAt(toks, p.current)

Parser_is_eof(toks, p) == Parser_peek(toks, p).token_type.k = "Eof"

Parser_previous(toks, p) == TokenAt(toks, p.current - 1)

\* Parser::advance: [token, p]
Parser_advance(toks, p) ==
    LET q == IF ~Parser_is_eof(toks, p) THEN [p EXCEPT !.current = @ + 1] ELSE p
    IN [token |-> TokenAt(toks, q.current - 1),
        p |-> Indexed(Indexed(q, toks, p.current), toks, q.current - 1)]

\* Parser::retreat
Parser_retreat(p) == IF p.current > 0 THEN [p EXCEPT !.current = @ - 1] ELSE p

\* Parser::check, for a token type without payload
Parser_check(toks, p, t) ==
    IF Parser_is_eof(toks, p) THEN FALSE
    ELSE Parser_peek(toks, p).token_type = TT(t)

\* Parser::match_tokens: [matched, p]
Parser_match_tokens(toks, p, types) ==
    IF \E t \in types : Parser_check(toks, p, t)
    THEN [matched |-> TRUE, p |-> Parser_advance(toks, p).p]
    ELSE [matched |-> FALSE, p |-> Indexed(p, toks, p.current)]

\* Parser::consume: [ok, token, p]
Parser_consume(toks, p, token_type, message) ==
    LET a == Parser_advance(toks, p) IN
    IF Parser_check(toks, p, token_type)
    THEN [ok |-> TRUE, token |-> a.token, p |-> a.p]
    ELSE [ok |-> FALSE, token |-> a.token,
          p |-> Reporter_error(a.p, a.token.line, a.token.lexeme, message)]

\* the operators a level of binary expressions matches
LevelOps(level) ==
    CASE level = "or" -> {"Or"}
      [] level = "and" -> {"And"}
      [] level = "equality" -> {"BangEqual", "EqualEqual"}
      [] level = "comparison" -> {"Greater", "GreaterEqual", "Less", "LessEqual"}
      [] level = "term" -> {"Minus", "Plus"}
      [] level = "factor" -> {"Slash", "Star"}

\* levels with term above factor
LevelLeft_term_above_factor(level) ==
    CASE level = "or" -> "and"
      [] level = "and" -> "equality"
      [] level = "equality" -> "comparison"
      [] level = "comparison" -> "factor"
      [] level = "factor" -> "term"
      [] level = "term" -> "unary"

\* the level that parses the first operand
LevelLeft(level) ==
    CASE level = "or" -> "and"
      [] level = "and" -> "equality"
      [] level = "equality" -> "comparison"
      [] level = "comparison" -> "term"
      [] level = "term" -> "factor"
      [] level = "factor" -> "unary"

\* the level that parses the operand after an operator: Parser::or calls
\* self.or() there, every other level the level of its first operand
LevelRight(level) == IF level = "or" THEN "or" ELSE LevelLeft(level)

\* the `?` of the source: on Ok the rest of the function runs with the
\* result, on Err(()) the function returns Err(())
Try(r, rest(_)) == IF r.ok THEN rest(r) ELSE PErr(r.p)

\* a `let` of the source: the rest of the function runs with the value
Let(v, rest(_)) == rest(v)

RECURSIVE Parser_parse_statement(_, _), Parser_block_loop(_, _, _),
          Parser_level(_, _, _), Parser_level_loop(_, _, _, _),
          Parser_unary(_, _), Parser_primary(_, _)

\* Parser::or, and, equality, comparison, term, factor: the first operand
Parser_level(level, toks, p) ==
    IF level = "unary" THEN Parser_unary(toks, p)
    ELSE Try(Parser_level(LevelLeft(level), toks, p), LAMBDA expr :
             Parser_level_loop(level, toks, expr.p, expr.node))

\* the while loop of a level: operator, right operand, Binary node
Parser_level_loop(level, toks, p, expr) ==
    Let(Parser_match_tokens(toks, p, LevelOps(level)), LAMBDA m :
        IF ~m.matched THEN POk(expr, p)
        ELSE Try(Parser_level(LevelRight(level), toks, m.p), LAMBDA right :
                 Parser_level_loop(level, toks, right.p,
                                   Expr_Binary(expr, Parser_previous(toks, m.p),
                                               right.node))))

Parser_or(toks, p) == Parser_level("or", toks, p)
Parser_and(toks, p) == Parser_level("and", toks, p)
Parser_equality(toks, p) == Parser_level("equality", toks, p)
Parser_comparison(toks, p) == Parser_level("comparison", toks, p)
Parser_term(toks, p) == Parser_level("term", toks, p)
Parser_factor(toks, p) == Parser_level("factor", toks, p)

\* Parser::express
Parser_express(toks, p) == Parser_or(toks, p)

\* Parser::unary
Parser_unary(toks, p) ==
    Let(Parser_match_tokens(toks, p, {"Bang", "Minus"}), LAMBDA m :
        IF m.matched
        THEN Try(Parser_unary(toks, m.p), LAMBDA right :
                 POk(Expr_Unary(Parser_previous(toks, m.p), right.node), right.p))
        ELSE Parser_primary(toks, p))

\* the reserved words and the identifier that Parser::primary takes as literals
PrimaryWords ==
    {"And", "Class", "Else", "For", "Fun", "If", "Or", "Print", "Return",
     "Super", "This", "Var", "While", "Identifier"}

\* Parser::primary, the arms `(` and `{`: a statement and the closing token
Parser_grouping(toks, p, close, message) ==
    Try(Parser_parse_statement(toks, p), LAMBDA stmt :
        Try(Parser_consume(toks, stmt.p, close, message), LAMBDA c :
            POk(Expr_Group(stmt.node), c.p)))

\* Parser::primary
\* a primary that reports the token it cannot start with and leaves it in
\* place, instead of advancing over it
Parser_primary_peek(toks, p) ==
    LET lit == Parser_match_tokens(toks, p, {"False", "True", "Nil"})
        tt == Parser_peek(toks, p).token_type
        a == Parser_advance(toks, p)
        paren == Parser_match_tokens(toks, p, {"LeftParen"})
        brace == Parser_match_tokens(toks, p, {"LeftBrace"})
        word == Parser_match_tokens(toks, p, PrimaryWords)
    IN IF lit.matched THEN POk(Expr_Literal(Parser_previous(toks, lit.p)), lit.p)
       ELSE IF tt.k = "Number" THEN POk(Expr_Literal(Parser_previous(toks, a.p)), a.p)
       ELSE IF tt.k = "String"
       THEN POk(Expr_Literal(Token(TTString(tt.s), tt.s,
                                   Parser_previous(toks, a.p).line)), a.p)
       ELSE IF paren.matched
       THEN Parser_grouping(toks, paren.p, "RightParen", "Unmatched parentheses.")
       ELSE IF brace.matched
       THEN Parser_grouping(toks, brace.p, "RightBrace", "Unmatched brace.")
       ELSE IF word.matched THEN POk(Expr_Literal(Parser_previous(toks, word.p)), word.p)
       ELSE PErr(Reporter_error(p, Parser_peek(toks, p).line,
                                Parser_peek(toks, p).lexeme, "Expect expression."))

Parser_primary(toks, p) ==
    LET lit == Parser_match_tokens(toks, p, {"False", "True", "Nil"})
        tt == Parser_peek(toks, p).token_type
        a == Parser_advance(toks, p)
        paren == Parser_match_tokens(toks, p, {"LeftParen"})
        brace == Parser_match_tokens(toks, p, {"LeftBrace"})
        word == Parser_match_tokens(toks, p, PrimaryWords)
    IN IF lit.matched THEN POk(Expr_Literal(Parser_previous(toks, lit.p)), lit.p)
       ELSE IF tt.k = "Number" THEN POk(Expr_Literal(Parser_previous(toks, a.p)), a.p)
       ELSE IF tt.k = "String"
       THEN POk(Expr_Literal(Token(TTString(tt.s), tt.s,
                                   Parser_previous(toks, a.p).line)), a.p)
       ELSE IF paren.matched
       THEN Parser_grouping(toks, paren.p, "RightParen", "Unmatched parentheses.")
       ELSE IF brace.matched
       THEN Parser_grouping(toks, brace.p, "RightBrace", "Unmatched brace.")
       ELSE IF word.matched THEN POk(Expr_Literal(Parser_previous(toks, word.p)), word.p)
       ELSE PErr(Reporter_error(a.p, a.token.line, a.token.lexeme,
                                "Expect expression."))

\* the optional `;` after a statement: consumed when it is the next token
Parser_optional_semicolon(toks, p) ==
    IF Parser_peek(toks, p).token_type = TT("SemiColon")
    THEN Parser_consume(toks, p, "SemiColon", "").p
    ELSE Indexed(p, toks, p.current)

\* Parser::expression_statement
Parser_expression_statement(toks, p) ==
    Try(Parser_express(toks, p), LAMBDA expr :
        POk(Stmt_Expr(expr.node), Parser_optional_semicolon(toks, expr.p)))

\* Parser::block_statement, the loop: statements up to `}` or the end
Parser_block_loop(toks, p, stmts) ==
    IF ~Parser_check(toks, p, "RightBrace") /\ ~Parser_is_eof(toks, p)
    THEN Try(Parser_parse_statement(toks, p), LAMBDA s :
             Parser_block_loop(toks, s.p, Append(stmts, s.node)))
    ELSE POk(stmts, p)

\* Parser::block_statement
Parser_block_statement(toks, p) ==
    Try(Parser_block_loop(toks, p, <<>>), LAMBDA body :
        Try(Parser_consume(toks, body.p, "RightBrace", "Expect '}' ."), LAMBDA c :
            IF body.node = <<>> THEN PErr(c.p)
            ELSE POk(Stmt_Block(body.node), c.p)))

\* Parser::print_statement
Parser_print_statement(toks, p) ==
    Try(Parser_parse_statement(toks, p), LAMBDA stmt :
        POk(Stmt_Print(stmt.node), Parser_optional_semicolon(toks, stmt.p)))

\* Parser::while_statement
Parser_while_statement(toks, p) ==
    Try(Parser_consume(toks, p, "LeftParen", "Expect '(' after 'while'."),
        LAMBDA open :
    Try(Parser_parse_statement(toks, open.p), LAMBDA condition :
    Try(Parser_consume(toks, condition.p, "RightParen",
                       "Expect ')' after condition."), LAMBDA close :
    Try(Parser_parse_statement(toks, close.p), LAMBDA body :
        POk(Stmt_While(condition.node, body.node), body.p)))))

\* Parser::if_statement
Parser_if_statement(toks, p) ==
    Try(Parser_consume(toks, p, "LeftParen", "Expect '(' after 'if'."),
        LAMBDA open :
    Try(Parser_parse_statement(toks, open.p), LAMBDA condition :
    Try(Parser_consume(toks, condition.p, "RightParen",
                       "Expect ')' after if condition."), LAMBDA close :
    Try(Parser_parse_statement(toks, close.p), LAMBDA then_branch :
    Let(Parser_match_tokens(toks, then_branch.p, {"Else"}), LAMBDA else_m :
        IF ~else_m.matched
        THEN POk(Stmt_If(condition.node, then_branch.node, <<>>), then_branch.p)
        ELSE Try(Parser_parse_statement(toks, else_m.p), LAMBDA else_branch :
                 POk(Stmt_If(condition.node, then_branch.node,
                             <<else_branch.node>>), else_branch.p)))))))

\* Parser::assign_statement
Parser_assign_statement(toks, p) ==
    LET var == Parser_previous(toks, p)
        tt == Parser_peek(toks, p).token_type
        q == Indexed(Indexed(p, toks, p.current - 1), toks, p.current)
    IN IF tt = TT("SemiColon")
       THEN Try(Parser_consume(toks, q, "SemiColon", ""), LAMBDA semi :
                POk(Stmt_Expr(Expr_Literal(var)), semi.p))
       ELSE IF tt = TT("Equal")
       THEN Try(Parser_consume(toks, q, "Equal", ""), LAMBDA eq :
            Try(Parser_parse_statement(toks, eq.p), LAMBDA stmt :
                POk(Stmt_Assign(var.lexeme, stmt.node), stmt.p)))
       ELSE Parser_expression_statement(toks, Parser_retreat(q))

\* Parser::declare_statement, after the name: the initializer
Parser_declare_initializer(toks, p) ==
    Let(Parser_match_tokens(toks, p, {"Equal"}), LAMBDA eq :
        IF eq.matched THEN Parser_parse_statement(toks, eq.p)
        ELSE IF Parser_peek(toks, p).token_type = TT("SemiColon")
        THEN PErr(Reporter_error(Indexed(p, toks, p.current - 2),
                                 TokenAt(toks, p.current - 2).line, "var",
                                 "Expect expression."))
        ELSE Parser_expression_statement(toks, p))

\* Parser::declare_statement
Parser_declare_statement(toks, p) ==
    LET token == Parser_previous(toks, p) IN
    IF ~Parser_check(toks, p, "Identifier")
    THEN PErr(Reporter_error(Indexed(Indexed(p, toks, p.current), toks,
                                     p.current - 1),
                             token.line, token.lexeme, "Expect expression."))
    ELSE Try(Parser_consume(toks, p, "Identifier", "Expect variable name."),
             LAMBDA var :
         Try(Parser_declare_initializer(toks, var.p), LAMBDA stmt :
             POk(Stmt_Declare(var.token.lexeme, stmt.node),
                 Parser_optional_semicolon(toks, stmt.p))))

\* a clause of a for statement that is there: Some(statement)
Parser_some(r) == IF r.ok THEN POk(<<r.node>>, r.p) ELSE r

\* Parser::for_statement, the initializer clause
Parser_for_initializer(toks, p) ==
    LET no_init == Parser_match_tokens(toks, p, {"SemiColon"})
        m_var == Parser_match_tokens(toks, p, {"Var"})
        m_id == Parser_match_tokens(toks, p, {"Identifier"})
    IN IF no_init.matched THEN POk(<<>>, no_init.p)
       ELSE IF m_var.matched THEN Parser_some(Parser_declare_statement(toks, m_var.p))
       ELSE IF m_id.matched THEN Parser_some(Parser_assign_statement(toks, m_id.p))
       ELSE Parser_some(Parser_parse_statement(toks, p))

\* Parser::for_statement, the condition and the increment clause: None when
\* the token `absent` follows, which is consumed
Parser_for_clause(toks, p, absent) ==
    Let(Parser_match_tokens(toks, p, {absent}), LAMBDA none :
        IF none.matched THEN POk(<<>>, none.p)
        ELSE Parser_some(Parser_parse_statement(toks, p)))

\* Parser::for_statement
Parser_for_statement(toks, p) ==
    Try(Parser_consume(toks, p, "LeftParen", "Expect '(' after 'for'."),
        LAMBDA open :
    Try(Parser_for_initializer(toks, open.p), LAMBDA initializer :
    Try(Parser_for_clause(toks, initializer.p, "SemiColon"), LAMBDA condition :
    Try(Parser_for_clause(toks, condition.p, "RightParen"), LAMBDA increment :
    Try(Parser_consume(toks, increment.p, "RightParen",
                       "Expect ')' after for clauses."), LAMBDA close :
    Try(Parser_parse_statement(toks, close.p), LAMBDA body :
        POk(Stmt_For(initializer.node, condition.node, increment.node,
                     body.node), body.p)))))))

\* Parser::parse_statement
Parser_parse_statement(toks, p) ==
    LET m(t) == Parser_match_tokens(toks, p, {t}) IN
    IF m("LeftBrace").matched THEN Parser_block_statement(toks, m("LeftBrace").p)
    ELSE IF m("Print").matched THEN Parser_print_statement(toks, m("Print").p)
    ELSE IF m("While").matched THEN Parser_while_statement(toks, m("While").p)
    ELSE IF m("For").matched THEN Parser_for_statement(toks, m("For").p)
    ELSE IF m("If").matched THEN Parser_if_statement(toks, m("If").p)
    ELSE IF m("Var").matched THEN Parser_declare_statement(toks, m("Var").p)
    ELSE IF m("Identifier").matched
    THEN Parser_assign_statement(toks, m("Identifier").p)
    ELSE Parser_expression_statement(toks, p)

\* Parser::parse, the loop to its end: [statements, p]
RECURSIVE Parser_parse(_, _, _)
Parser_parse(toks, p, stmts) ==
    IF Parser_is_eof(toks, p) \/ p.panic THEN [statements |-> stmts, p |-> p]
    ELSE Let(Parser_parse_statement(toks, p), LAMBDA r :
             Parser_parse(toks, r.p, IF r.ok THEN Append(stmts, r.node) ELSE stmts))

-----------------------------------------------------------------------------
(* token.rs: Display for Expr and for Stmt, character by character so that *)
(* what is printed can be scanned again.  Stmt of token.rs has no While   *)
(* and no For variant: a loop statement has no printed form here.         *)

\* the words that the printed statements contain
Words ==
    {<<>>, <<"a">>, <<"b">>, <<"x">>, <<"y">>, <<"i">>, <<"a", " ", "b">>,
     <<"+">>, <<"-">>, <<"*">>, <<"/">>, <<"!">>, <<"<">>, <<">">>,
     <<"<", "=">>, <<">", "=">>, <<"=", "=">>, <<"!", "=">>,
     <<"o", "r">>, <<"a", "n", "d">>, <<"n", "i", "l">>, <<"t", "r", "u", "e">>,
     <<"f", "a", "l", "s", "e">>, <<"p", "r", "i", "n", "t">>, <<"v", "a", "r">>,
     <<"e", "l", "s", "e">>, <<"i", "f">>, <<"f", "o", "r">>,
     <<"w", "h", "i", "l", "e">>, <<"g", "r", "o", "u", "p">>}

\* the characters of a string
Spell(s) == CHOOSE cs \in Words : Concat(cs) = s

\* "{}" of an integral f64: the digits, no fractional part
RECURSIVE NumberChars(_)
NumberChars(n) ==
    IF n < 10 THEN <<NatStr(n)>> ELSE NumberChars(n \div 10) \o <<NatStr(n % 10)>>

RECURSIVE Expr_fmt(_), Stmt_fmt(_), Block_fmt(_, _)

\* Display for Expr
Expr_fmt(e) ==
    CASE e.k = "Binary" ->
            <<"(">> \o Spell(e.operator.lexeme) \o <<" ">> \o Expr_fmt(e.left)
            \o <<" ">> \o Expr_fmt(e.right) \o <<")">>
      [] e.k = "Literal" ->
            (CASE e.token.token_type.k = "String" -> Spell(e.token.token_type.s)
               [] e.token.token_type.k = "Number" -> NumberChars(e.token.token_type.n)
               [] OTHER -> Spell(e.token.lexeme))
      [] e.k = "Unary" ->
            <<"(">> \o Spell(e.operator.lexeme) \o <<" ">> \o Expr_fmt(e.expr)
            \o <<")">>
      [] e.k = "Group" ->
            <<"(", "g", "r", "o", "u", "p", " ">> \o Stmt_fmt(e.stmt) \o <<")">>

\* Display for Stmt, the Block arm: a line of three spaces and the statement
\* for each statement
Block_fmt(stmts, i) ==
    IF i > Len(stmts) THEN <<>>
    ELSE <<" ", " ", " ">> \o Stmt_fmt(stmts[i]) \o <<"\n">> \o Block_fmt(stmts, i + 1)

\* Display for Stmt
Stmt_fmt(s) ==
    CASE s.k = "Block" -> <<"{", "\n">> \o Block_fmt(s.stmts, 1) \o <<"}", "\n">>
      [] s.k = "Print" -> <<"p", "r", "i", "n", "t", " ">> \o Stmt_fmt(s.stmt)
      [] s.k = "If" ->
            <<"i", "f", " ">> \o Stmt_fmt(s.condition) \o <<" ">>
            \o Stmt_fmt(s.if_branch)
            \o (IF s.else_branch # <<>>
                THEN <<" ", "e", "l", "s", "e", " ">> \o Stmt_fmt(s.else_branch[1])
                ELSE <<>>)
      [] s.k = "Declare" ->
            <<"v", "a", "r", " ">> \o Spell(s.var) \o <<" ", "=", " ">>
            \o Stmt_fmt(s.stmt)
      [] s.k = "Assign" -> Spell(s.var) \o <<" ", "=", " ">> \o Stmt_fmt(s.stmt)
      [] s.k = "Expr" -> Expr_fmt(s.expr)

\* main.rs, "parse": println!("{}", statement) for each statement, as text
RECURSIVE PrintStatements(_)
PrintStatements(stmts) ==
    IF stmts = <<>> THEN <<>>
    ELSE Stmt_fmt(stmts[1]) \o <<"\n">> \o PrintStatements(Tail(stmts))

\* main.rs, "parse": the lines written, one string for each statement
RECURSIVE PrintedStatements(_)
PrintedStatements(stmts) ==
    IF stmts = <<>> THEN <<>>
    ELSE <<Concat(Stmt_fmt(stmts[1]))>> \o PrintedStatements(Tail(stmts))

\* Stmt::evaluate_no_run: an expression statement is evaluated in Env::new()
\* and its value printed; every other statement is Err(65)
Stmt_evaluate_no_run(s, w) ==
    IF s.k = "Expr"
    THEN Let(Expr_evaluate(s.expr, 1, [w EXCEPT !.store = <<Env_new>>]), LAMBDA value :
             IF ~value.ok THEN [value EXCEPT !.w.store = w.store]
             ELSE Ok(value.value, [value.w EXCEPT !.store = w.store,
                                                  !.out = Append(@, Value_fmt(value.value))]))
    ELSE [ok |-> FALSE, value |-> Nil, code |-> 65, w |-> w]

-----------------------------------------------------------------------------
(* The steps of a run.  `last` records the step taken last. *)

Step(step, stmt, env, r) ==
    [step |-> step, stmt |-> stmt, env |-> env, ok |-> r.ok, value |-> r.value,
     code |-> r.code]

World == [store |-> store, out |-> out, err |-> err]

Running == exitcode = <<>>

\* main.rs, "run", with the parser done: Env::new() and the first statement
\* still to come
InitRun ==
    /\ command = "run"
    /\ source = <<>>
    /\ chars = <<>>
    /\ line = 1
    /\ phase = "run"
    /\ tokens = <<>>
    /\ current = 0
    /\ had_error = FALSE
    /\ statements = <<>>
    /\ pc = 1
    /\ store = <<Env_new>>
    /\ environment = 1
    /\ out = <<>>
    /\ err = <<>>
    /\ exitcode = <<>>
    /\ last = Step("init", NoStmt, 1, Ok(Nil, <<>>))

\* statement.evaluate(environment): one statement runs in the current
\* environment; on Err main returns the exit code and the run is over
Execute(s) ==
    LET r == Stmt_evaluate(s, environment, World) IN
    /\ phase = "run"
    /\ Running
    /\ store' = r.w.store
    /\ out' = r.w.out
    /\ err' = r.w.err
    /\ exitcode' = IF r.ok THEN <<>> ELSE <<r.code>>
    /\ phase' = IF r.ok THEN "run" ELSE "done"
    /\ last' = Step("evaluate", s, environment, r)
    /\ UNCHANGED <<tokens, current, had_error, statements, environment>>
    /\ UNCHANGED scan_vars

\* the next statement of a run is s
Evaluate(s) ==
    /\ Len(Stmt_evaluate(s, environment, World).w.out) <= MaxOut
    /\ Execute(s)
    /\ UNCHANGED pc

\* Stmt::Block, entry: the statements of the block run in a fresh scope
\* that encloses the current environment
BlockEnter ==
    /\ phase = "run"
    /\ Running
    /\ Len(store) < MaxDepth
    /\ store' = Env_with_enclosing(store, environment)
    /\ environment' = Len(store) + 1
    /\ last' = Step("enter", NoStmt, environment, Ok(Nil, <<>>))
    /\ UNCHANGED <<tokens, current, had_error, statements, phase, pc, out, err,
                   exitcode>>
    /\ UNCHANGED scan_vars

\* Stmt::Block, exit: the list is exhausted, the block environment is
\* dropped and the enclosing environment is current again
BlockExit ==
    /\ phase = "run"
    /\ Running
    /\ store[environment].enclosing # NoEnv
    /\ store' = Env_drop(store, environment)
    /\ environment' = store[environment].enclosing
    /\ last' = Step("exit", NoStmt, environment, Ok(Nil, <<>>))
    /\ UNCHANGED <<tokens, current, had_error, statements, phase, pc, out, err,
                   exitcode>>
    /\ UNCHANGED scan_vars

\* main.rs: the statement list is exhausted, ExitCode::SUCCESS
Finish ==
    /\ phase = "run"
    /\ Running
    /\ pc > Len(statements)
    /\ store[environment].enclosing = NoEnv
    /\ exitcode' = <<0>>
    /\ phase' = "done"
    /\ last' = Step("finish", NoStmt, environment, Ok(Nil, <<>>))
    /\ UNCHANGED <<tokens, current, had_error, statements, pc, store, environment,
                   out, err>>
    /\ UNCHANGED scan_vars

\* main.rs, "run", with the scanner done: Parser::new(scanner.tokens())
InitParse(programs) ==
    /\ command = "run"
    /\ source = <<>>
    /\ chars = <<>>
    /\ line = 1
    /\ phase = "parse"
    /\ tokens \in programs
    /\ current = Parser_new.current
    /\ had_error = Parser_new.had_error
    /\ statements = <<>>
    /\ pc = 1
    /\ store = <<>>
    /\ environment = NoEnv
    /\ out = <<>>
    /\ err = <<>>
    /\ exitcode = <<>>
    /\ last = Step("init", NoStmt, NoEnv, Ok(Nil, <<>>))

ParserState ==
    [current |-> current, had_error |-> had_error, err |-> err, panic |-> FALSE]

\* Parser::parse, one turn of the loop: a statement that parses is pushed
ParseStatement ==
    LET r == Parser_parse_statement(tokens, ParserState) IN
    /\ phase = "parse"
    /\ ~Parser_is_eof(tokens, ParserState)
    /\ statements' = IF r.ok /\ ~r.p.panic THEN Append(statements, r.node)
                      ELSE statements
    /\ current' = r.p.current
    /\ had_error' = r.p.had_error
    /\ err' = r.p.err
    \* an index outside self.tokens panics: the process stops with code 101
    /\ phase' = IF r.p.panic THEN "done" ELSE phase
    /\ exitcode' = IF r.p.panic THEN <<101>> ELSE exitcode
    /\ last' = [step |-> "parse", stmt |-> r.node, env |-> NoEnv,
                ok |-> r.ok /\ ~r.p.panic, value |-> Nil, code |-> 0]
    /\ UNCHANGED <<tokens, pc, store, environment, out>>
    /\ UNCHANGED scan_vars

\* a main that runs the statements whatever the parser reported
ParseEnd_unchecked ==
    /\ phase = "parse"
    /\ Parser_is_eof(tokens, ParserState)
    /\ exitcode' = <<>>
    /\ phase' = "run"
    /\ store' = <<Env_new>>
    /\ environment' = 1
    /\ last' = [step |-> "parsed", stmt |-> NoStmt, env |-> NoEnv, ok |-> ~had_error,
                value |-> Nil, code |-> 0]
    /\ UNCHANGED <<tokens, current, had_error, statements, pc, out, err>>
    /\ UNCHANGED scan_vars

\* Parser::parse, after the loop, and main: exit code 65 when an error was
\* reported; else "parse" prints the statements and exits with 0, "evaluate"
\* goes on to evaluate_no_run, and "run" to Env::new() and the run of the
\* statements
ParseEnd ==
    /\ phase = "parse"
    /\ Parser_is_eof(tokens, ParserState)
    /\ IF had_error
       THEN /\ exitcode' = <<65>>
            /\ phase' = "done"
            /\ UNCHANGED <<store, environment, out>>
       ELSE IF command = "parse"
       THEN /\ out' = out \o PrintedStatements(statements)
            /\ exitcode' = <<0>>
            /\ phase' = "done"
            /\ UNCHANGED <<store, environment>>
       ELSE IF command = "evaluate"
       THEN /\ phase' = "evaluate"
            /\ UNCHANGED <<store, environment, out, exitcode>>
       ELSE /\ exitcode' = <<>>
            /\ phase' = "run"
            /\ store' = <<Env_new>>
            /\ environment' = 1
            /\ UNCHANGED out
    /\ last' = [step |-> "parsed", stmt |-> NoStmt, env |-> NoEnv, ok |-> ~had_error,
                value |-> Nil, code |-> IF had_error THEN 65 ELSE 0]
    /\ UNCHANGED <<tokens, current, had_error, statements, pc, err>>
    /\ UNCHANGED scan_vars

\* main.rs, "evaluate", the loop over parser.statements()
EvaluateStatement ==
    LET r == Stmt_evaluate_no_run(statements[pc], World) IN
    /\ phase = "evaluate"
    /\ pc <= Len(statements)
    /\ out' = r.w.out
    /\ err' = r.w.err
    /\ exitcode' = IF r.ok THEN <<>> ELSE <<r.code>>
    /\ phase' = IF r.ok THEN "evaluate" ELSE "done"
    /\ pc' = pc + 1
    /\ last' = Step("evaluate_no_run", statements[pc], NoEnv, r)
    /\ UNCHANGED <<tokens, current, had_error, statements, store, environment>>
    /\ UNCHANGED scan_vars

\* main.rs, "evaluate", after the loop: ExitCode::SUCCESS
EvaluateEnd ==
    /\ phase = "evaluate"
    /\ pc > Len(statements)
    /\ exitcode' = <<0>>
    /\ phase' = "done"
    /\ last' = Step("finish", NoStmt, NoEnv, Ok(Nil, <<>>))
    /\ UNCHANGED <<tokens, current, had_error, statements, pc, store, environment,
                   out, err>>
    /\ UNCHANGED scan_vars

\* main.rs, "run", the loop over parser.statements()
RunStatement ==
    /\ pc <= Len(statements)
    /\ Execute(statements[pc])
    /\ pc' = pc + 1

-----------------------------------------------------------------------------
(* The statements a run may execute next *)

Names == {"x", "y"}

Ident(name) == Stmt_Expr(Expr_Literal(Token(TT("Identifier"), name, 1)))
Num(n) == Stmt_Expr(Expr_Literal(Token(TTNumber(n), NatStr(n), 1)))
Lits == {Num(1), Num(2)}

\* var n = v;
DeclareStmts == {Stmt_Declare(n, v) : n \in Names, v \in Lits}

\* n = v;
AssignStmts == {Stmt_Assign(n, v) : n \in Names, v \in Lits}

\* n;
GetStmts == {Ident(n) : n \in Names}

\* print n;
PrintStmts == {Stmt_Print(Ident(n)) : n \in Names}

\* n = (m = 2);   x = (var x = 1);
NestedAssignStmts ==
    {Stmt_Assign(n, Stmt_Expr(Expr_Group(Stmt_Assign(m, Num(2))))) :
        n \in Names, m \in Names}
    \cup {Stmt_Assign("x", Stmt_Expr(Expr_Group(Stmt_Declare("x", Num(1)))))}

\* s wrapped in d blocks: { { s } }
RECURSIVE Nest(_, _)
Nest(d, s) == IF d = 0 THEN s ELSE Stmt_Block(<<Nest(d - 1, s)>>)

\* { n = 2; }   { { n = 2; } }
NestedBlockStmts == {Nest(d, Stmt_Assign(n, Num(2))) : d \in 1..MaxNest, n \in Names}

\* { var n = 1; m = 2; }   { var n = 1; print m; }
ShadowBlockStmts ==
    {Stmt_Block(<<Stmt_Declare(n, Num(1)), Stmt_Assign(m, Num(2))>>) :
        n \in Names, m \in Names}
    \cup {Stmt_Block(<<Stmt_Declare(n, Num(1)), Stmt_Print(Ident(m))>>) :
        n \in Names, m \in Names}

\* scope chains: declarations, assignments and lookups, inside open blocks
EnvStmts == DeclareStmts \cup AssignStmts \cup GetStmts \cup NestedAssignStmts

NextEnv ==
    \/ \E s \in EnvStmts : Evaluate(s)
    \/ BlockEnter
    \/ BlockExit
    \/ Finish

SpecEnv == InitRun /\ [][NextEnv]_vars

\* top-level statements, blocks among them
BlockStmts == DeclareStmts \cup PrintStmts \cup NestedBlockStmts \cup ShadowBlockStmts

NextBlock ==
    \/ \E s \in BlockStmts : Evaluate(s)
    \/ Finish

SpecBlock == InitRun /\ [][NextBlock]_vars

-----------------------------------------------------------------------------
(* Programs as token lists, as a clean scan hands them to the parser; all  *)
(* on line 1.                                                              *)

Tok(k, lexeme) == Token(TT(k), lexeme, 1)
NumTok(n) == Token(TTNumber(n), NatStr(n), 1)
StrTok(s) == Token(TTString(s), "\"" \o s \o "\"", 1)
EofTok == Tok("Eof", "")
Semi == Tok("SemiColon", ";")
OrTok == Tok("Or", "or")
AndTok == Tok("And", "and")
IdTok(name) == Tok("Identifier", name)

\* a literal of every kind of value, the falsy and the truthy ones
ValueTokens ==
    {Tok("Nil", "nil"), Tok("True", "true"), Tok("False", "false"),
     NumTok(0), NumTok(1), StrTok(""), StrTok("a")}

\* L op R ;
BinaryProgram(L, op, R) == <<L, op, R, Semi, EofTok>>

LogicPrograms ==
    {BinaryProgram(L, op, R) : L \in ValueTokens, op \in {OrTok, AndTok},
                               R \in ValueTokens}

ArithmeticPrograms ==
    {BinaryProgram(L, op, R) : L \in ValueTokens,
                               op \in {Tok("Plus", "+"), Tok("Minus", "-")},
                               R \in ValueTokens}

\* statements with an effect: x = 1, var y = 1, print 1
SideEffects ==
    {<<IdTok("x"), Tok("Equal", "="), NumTok(1)>>,
     <<Tok("Var", "var"), IdTok("y"), Tok("Equal", "="), NumTok(1)>>,
     <<Tok("Print", "print"), NumTok(1)>>}

\* var x = nil ; L op ( R ) ; print x ;
ShortCircuitProgram(L, op, R) ==
    <<Tok("Var", "var"), IdTok("x"), Tok("Equal", "="), Tok("Nil", "nil"), Semi,
      L, op, Tok("LeftParen", "(")>>
    \o R \o
    <<Tok("RightParen", ")"), Semi, Tok("Print", "print"), IdTok("x"), Semi, EofTok>>

ShortCircuitPrograms ==
    {ShortCircuitProgram(L, op, R) : L \in ValueTokens, op \in {OrTok, AndTok},
                                     R \in SideEffects}

\* op v ;
UnaryProgram(op, v) == <<op, v, Semi, EofTok>>

UnaryPrograms ==
    {UnaryProgram(op, v) : op \in {Tok("Bang", "!"), Tok("Minus", "-")},
                           v \in ValueTokens}

\* if ( v ) print 1 ; else print 2 ;
IfProgram(v) ==
    <<Tok("If", "if"), Tok("LeftParen", "("), v, Tok("RightParen", ")"),
      Tok("Print", "print"), NumTok(1), Semi, Tok("Else", "else"),
      Tok("Print", "print"), NumTok(2), Semi, EofTok>>

IfPrograms == {IfProgram(v) : v \in ValueTokens}

\* print z ;   z = 1 ;
UndefinedPrograms ==
    {<<Tok("Print", "print"), IdTok("z"), Semi, EofTok>>,
     <<IdTok("z"), Tok("Equal", "="), NumTok(1), Semi, EofTok>>}

\* ( 1 ;   + ;   { }
ErrorPrograms ==
    {<<Tok("LeftParen", "("), NumTok(1), Semi, EofTok>>,
     <<Tok("Plus", "+"), Semi, EofTok>>,
     <<Tok("LeftBrace", "{"), Tok("RightBrace", "}"), EofTok>>}

\* statements that fail when they are evaluated
FailingStmts ==
    {<<IdTok("z"), Semi>>,
     <<Tok("Print", "print"), IdTok("z"), Semi>>,
     <<IdTok("z"), Tok("Equal", "="), NumTok(1), Semi>>,
     <<Tok("Minus", "-"), StrTok("a"), Semi>>,
     <<NumTok(1), Tok("Plus", "+"), StrTok("a"), Semi>>,
     <<Tok("Bang", "!"), StrTok("a"), Semi>>}

\* { F }
Braced(F) == <<Tok("LeftBrace", "{")>> \o F \o <<Tok("RightBrace", "}")>>

\* a statement that does not fail: 1 ;
PassingStmt == <<NumTok(1), Semi>>

\* var x = 1 ; print 1 ; { print 2 ; F print 3 ; x = 2 ; } print 4 ;
AbortProgram(F) ==
    <<Tok("Var", "var"), IdTok("x"), Tok("Equal", "="), NumTok(1), Semi,
      Tok("Print", "print"), NumTok(1), Semi,
      Tok("LeftBrace", "{"), Tok("Print", "print"), NumTok(2), Semi>>
    \o F \o
    <<Tok("Print", "print"), NumTok(3), Semi,
      IdTok("x"), Tok("Equal", "="), NumTok(2), Semi, Tok("RightBrace", "}"),
      Tok("Print", "print"), NumTok(4), Semi, EofTok>>

\* var x = 1 ; print 1 ; F print 4 ; x = 2 ;
AbortTopProgram(F) ==
    <<Tok("Var", "var"), IdTok("x"), Tok("Equal", "="), NumTok(1), Semi,
      Tok("Print", "print"), NumTok(1), Semi>>
    \o F \o
    <<Tok("Print", "print"), NumTok(4), Semi,
      IdTok("x"), Tok("Equal", "="), NumTok(2), Semi, EofTok>>

AbortPrograms ==
    {AbortProgram(F) : F \in FailingStmts \cup {Braced(G) : G \in FailingStmts}
                                          \cup {PassingStmt}}
    \cup {AbortTopProgram(F) : F \in FailingStmts \cup {PassingStmt}}

\* the operands of the equality and `+` programs: the literals above, a
\* string that prints as a number does, and a second string of one letter
Operands == ValueTokens \cup {StrTok("1"), StrTok("b")}

EqualEqualTok == Tok("EqualEqual", "==")
BangEqualTok == Tok("BangEqual", "!=")
PlusTok == Tok("Plus", "+")

\* L == R ;  and  L != R ;
EqualityPrograms ==
    {BinaryProgram(L, op, R) : L \in Operands, op \in {EqualEqualTok, BangEqualTok},
                               R \in Operands}

\* L + R ;
PlusPrograms == {BinaryProgram(L, PlusTok, R) : L \in Operands, R \in Operands}

\* the binary operators, by the level of the parser that matches them
Levels == <<"or", "and", "equality", "comparison", "term", "factor">>

OpTok(k) ==
    Tok(k, CASE k = "Or" -> "or"
             [] k = "And" -> "and"
             [] k = "BangEqual" -> "!="
             [] k = "EqualEqual" -> "=="
             [] k = "Greater" -> ">"
             [] k = "GreaterEqual" -> ">="
             [] k = "Less" -> "<"
             [] k = "LessEqual" -> "<="
             [] k = "Minus" -> "-"
             [] k = "Plus" -> "+"
             [] k = "Slash" -> "/"
             [] k = "Star" -> "*"
             [] k = "Bang" -> "!")

BinaryKinds == UNION {LevelOps(Levels[i]) : i \in DOMAIN Levels}

\* 4 op1 2 op2 1 ;
ChainProgram(op1, op2) ==
    <<NumTok(4), OpTok(op1), NumTok(2), OpTok(op2), NumTok(1), Semi, EofTok>>

\* u 4 op 2 ;
PrefixProgram(u, op) == <<OpTok(u), NumTok(4), OpTok(op), NumTok(2), Semi, EofTok>>

ChainPrograms == {ChainProgram(op1, op2) : op1 \in BinaryKinds, op2 \in BinaryKinds}

PrefixPrograms == {PrefixProgram(u, op) : u \in {"Bang", "Minus"}, op \in BinaryKinds}

\* operands with an effect, and one that fails
PrintOf(n) == <<Tok("Print", "print"), NumTok(n)>>
AssignOf(tok) == <<IdTok("x"), Tok("Equal", "="), tok>>
Undefined == <<IdTok("z")>>

\* var x = 0 ; ( L ) op ( R ) ;
OrderProgram(L, op, R) ==
    <<Tok("Var", "var"), IdTok("x"), Tok("Equal", "="), NumTok(0), Semi,
      Tok("LeftParen", "(")>> \o L \o <<Tok("RightParen", ")"), OpTok(op),
      Tok("LeftParen", "(")>> \o R \o <<Tok("RightParen", ")"), Semi, EofTok>>

OrderOps == {"Plus", "Minus", "Less", "EqualEqual"}

OrderPrograms ==
    {OrderProgram(L, op, R) :
       L \in {PrintOf(1), AssignOf(NumTok(1)), Undefined},
       op \in OrderOps,
       R \in {PrintOf(2), AssignOf(NumTok(2)), AssignOf(StrTok("a"))}}

Programs ==
    LogicPrograms \cup ArithmeticPrograms \cup ShortCircuitPrograms
    \cup UnaryPrograms \cup IfPrograms \cup UndefinedPrograms \cup ErrorPrograms
    \cup AbortPrograms \cup EqualityPrograms \cup PlusPrograms
    \cup ChainPrograms \cup PrefixPrograms \cup OrderPrograms

Init == InitParse(Programs)

Next ==
    \/ ParseStatement
    \/ ParseEnd
    \/ RunStatement
    \/ Finish

Spec == Init /\ [][Next]_vars

-----------------------------------------------------------------------------
(* main.rs from the source text: the scanner, then for "run" the parser   *)
(* and the evaluator                                                       *)

\* the longest source of the enumerated ones
MaxSrc == 3

Alphabet == {"1", "a", "\"", "\n", "@", "+", "/"}

RECURSIVE SourcesOf(_)
SourcesOf(n) ==
    IF n = 0 THEN {<<>>}
    ELSE SourcesOf(n - 1) \cup
         {Append(s, c) : s \in {z \in SourcesOf(n - 1) : Len(z) = n - 1}, c \in Alphabet}

\* print 1;
PrintOne == <<"p", "r", "i", "n", "t", " ", "1", ";">>

\* programs that print, clean and with a scanner or a parser error after,
\* before or inside the print statement
PrintSources ==
    {PrintOne,
     PrintOne \o <<"@">>,
     <<"@">> \o PrintOne,
     PrintOne \o <<"\n", "\"", "a">>,
     PrintOne \o <<"(">>,
     <<")", ";">> \o PrintOne,
     PrintOne \o <<"\n">> \o PrintOne,
     PrintOne \o <<"\n", "/", "/", "@", "\n">>,
     <<"\"", "a", "\n", "b", "\"", ";", "\n", "1", "2", "\n">>}

Sources == SourcesOf(MaxSrc) \cup PrintSources

\* main.rs: the file contents are read and Scanner::new(&file_contents)
InitScan(sources) ==
    /\ command \in {"tokenize", "run"}
    /\ source \in sources
    /\ chars = source
    /\ line = 1
    /\ phase = "scan"
    /\ tokens = <<>>
    /\ current = 0
    /\ had_error = FALSE
    /\ statements = <<>>
    /\ pc = 1
    /\ store = <<>>
    /\ environment = NoEnv
    /\ out = <<>>
    /\ err = <<>>
    /\ exitcode = <<>>
    /\ last = Step("init", NoStmt, NoEnv, Ok(Nil, <<>>))

ScannerState ==
    [chars |-> chars, tokens |-> tokens, line |-> line, had_error |-> had_error,
     err |-> err]

\* Scanner::tokenize, one turn of `while let Some(c) = self.advance()`; the
\* break of an unterminated string leaves no character, which ends the loop
ScanToken ==
    LET sc == Scanner_turn(source, ScannerState) IN
    /\ phase = "scan"
    /\ chars # <<>>
    /\ chars' = sc.chars
    /\ tokens' = sc.tokens
    /\ line' = sc.line
    /\ had_error' = sc.had_error
    /\ err' = sc.err
    /\ last' = [step |-> "scan", stmt |-> NoStmt, env |-> NoEnv,
                ok |-> (sc.had_error = had_error), value |-> Nil, code |-> 0]
    /\ UNCHANGED <<command, source, current, statements, phase, pc, store,
                   environment, out, exitcode>>

\* the lines that "tokenize" prints
RECURSIVE PrintTokens(_)
PrintTokens(toks) ==
    IF toks = <<>> THEN <<>> ELSE <<Token_fmt(toks[1])>> \o PrintTokens(Tail(toks))

\* Scanner::tokenize after the loop, and main: Eof is pushed; "tokenize"
\* prints every token and exits with 65 or 0; "run" exits with 65 when the
\* scanner reported an error, else Parser::new(scanner.tokens())
ScanEnd ==
    LET all == Append(tokens, Scanner_eof(line)) IN
    /\ phase = "scan"
    /\ chars = <<>>
    /\ tokens' = all
    /\ IF command = "tokenize"
       THEN /\ out' = out \o PrintTokens(all)
            /\ exitcode' = IF had_error THEN <<65>> ELSE <<0>>
            /\ phase' = "done"
            /\ UNCHANGED <<current, had_error>>
       ELSE IF had_error
            THEN /\ exitcode' = <<65>>
                 /\ phase' = "done"
                 /\ UNCHANGED <<current, had_error, out>>
            ELSE /\ phase' = "parse"
                 /\ current' = Parser_new.current
                 /\ had_error' = Parser_new.had_error
                 /\ UNCHANGED <<exitcode, out>>
    /\ last' = [step |-> "scanned", stmt |-> NoStmt, env |-> NoEnv,
                ok |-> ~had_error, value |-> Nil,
                code |-> IF had_error THEN 65 ELSE 0]
    /\ UNCHANGED <<command, source, chars, line, statements, pc, store,
                   environment, err>>

InitSource == InitScan(Sources)

NextScan ==
    \/ ScanToken
    \/ ScanEnd
    \/ ParseStatement
    \/ ParseEnd
    \/ RunStatement
    \/ Finish

SpecScan == InitSource /\ [][NextScan]_vars

-----------------------------------------------------------------------------
(* main.rs with each of its commands: "tokenize", "parse", "evaluate" and *)
(* "run", on source texts                                                  *)

\* the parts of a for statement, as text and as the node the parser builds;
\* a clause is <<>> when absent and <<statement>> when present
ForOpen ==
    <<"f", "o", "r", " ", "(">>

ForClose ==
    <<")", " ">>

\* print i;
ForBodyText ==
    <<"p", "r", "i", "n", "t", " ", "i", ";">>

ForBody == Stmt_Print(Stmt_Expr(Expr_Literal(IdTok("i"))))

IPlusOne == Expr_Binary(Expr_Literal(IdTok("i")), OpTok("Plus"), Expr_Literal(NumTok(1)))
ILessThree == Expr_Binary(Expr_Literal(IdTok("i")), OpTok("Less"), Expr_Literal(NumTok(3)))

\* the initializer: absent, `var i = 0;` or `i = 0;`
ForInitializers ==
    {[text |-> <<";">>, node |-> <<>>],
     [text |-> <<"v", "a", "r", " ", "i", " ", "=", " ", "0", ";">>,
      node |-> <<Stmt_Declare("i", Stmt_Expr(Expr_Literal(NumTok(0))))>>],
     [text |-> <<"i", " ", "=", " ", "0", ";">>,
      node |-> <<Stmt_Assign("i", Stmt_Expr(Expr_Literal(NumTok(0))))>>]}

\* the condition: absent or `i < 3;`
ForConditions ==
    {[text |-> <<";">>, node |-> <<>>],
     [text |-> <<"i", " ", "<", " ", "3", ";">>,
      node |-> <<Stmt_Expr(ILessThree)>>]}

\* the increment: absent or `i = i + 1`
ForIncrements ==
    {[text |-> <<>>, node |-> <<>>],
     [text |-> <<"i", " ", "=", " ", "i", " ", "+", " ", "1">>,
      node |-> <<Stmt_Assign("i", Stmt_Expr(IPlusOne))>>]}

\* for ( initializer condition increment ) print i;
ForSource(initializer, condition, increment) ==
    ForOpen \o initializer.text \o <<" ">> \o condition.text \o <<" ">>
    \o increment.text \o ForClose \o ForBodyText

ForSources ==
    {ForSource(i, c, r) : i \in ForInitializers, c \in ForConditions,
                          r \in ForIncrements}

\* 1;
SrcNumber ==
    <<"1", ";">>

\* 12;
SrcNumber12 ==
    <<"1", "2", ";">>

\* "a";
SrcString ==
    <<"\"", "a", "\"", ";">>

\* "a b";
SrcStringTwoWords ==
    <<"\"", "a", " ", "b", "\"", ";">>

\* true;
SrcTrue ==
    <<"t", "r", "u", "e", ";">>

\* nil;
SrcNil ==
    <<"n", "i", "l", ";">>

\* x;
SrcIdentifier ==
    <<"x", ";">>

\* 1 + 2;
SrcSum ==
    <<"1", " ", "+", " ", "2", ";">>

\* -1;
SrcNegation ==
    <<"-", "1", ";">>

\* !true;
SrcNot ==
    <<"!", "t", "r", "u", "e", ";">>

\* (1);
SrcGroup ==
    <<"(", "1", ")", ";">>

\* 1 == 2;
SrcEquality ==
    <<"1", " ", "=", "=", " ", "2", ";">>

\* 1 < 2 or false;
SrcOr ==
    <<"1", " ", "<", " ", "2", " ", "o", "r", " ", "f", "a", "l", "s", "e",
      ";">>

\* 1 + 2 * 3;
SrcSumProduct ==
    <<"1", " ", "+", " ", "2", " ", "*", " ", "3", ";">>

\* print 1;
SrcPrint ==
    <<"p", "r", "i", "n", "t", " ", "1", ";">>

\* print 12;
SrcPrint12 ==
    <<"p", "r", "i", "n", "t", " ", "1", "2", ";">>

\* var x = 1;
SrcDeclare ==
    <<"v", "a", "r", " ", "x", " ", "=", " ", "1", ";">>

\* var x = 1;\nx = 2;\nprint x;
SrcAssign ==
    <<"v", "a", "r", " ", "x", " ", "=", " ", "1", ";", "\n", "x", " ", "=",
      " ", "2", ";", "\n", "p", "r", "i", "n", "t", " ", "x", ";">>

\* { print 1; }
SrcBlock ==
    <<"{", " ", "p", "r", "i", "n", "t", " ", "1", ";", " ", "}">>

\* if (true) print 1; else print 2;
SrcIf ==
    <<"i", "f", " ", "(", "t", "r", "u", "e", ")", " ", "p", "r", "i", "n",
      "t", " ", "1", ";", " ", "e", "l", "s", "e", " ", "p", "r", "i", "n",
      "t", " ", "2", ";">>

\* print 1;\nprint 2;
SrcTwoPrints ==
    <<"p", "r", "i", "n", "t", " ", "1", ";", "\n", "p", "r", "i", "n", "t",
      " ", "2", ";">>

\* print 1 + 2;
SrcPrintSum ==
    <<"p", "r", "i", "n", "t", " ", "1", " ", "+", " ", "2", ";">>

\* print "a";
SrcPrintString ==
    <<"p", "r", "i", "n", "t", " ", "\"", "a", "\"", ";">>

\* var a;\nprint a;
SrcDeclareNoInit ==
    <<"v", "a", "r", " ", "a", ";", "\n", "p", "r", "i", "n", "t", " ", "a",
      ";">>

\* 1 2;
SrcExprNoSemi ==
    <<"1", " ", "2", ";">>

\* print 1 print 2;
SrcPrintNoSemi ==
    <<"p", "r", "i", "n", "t", " ", "1", " ", "p", "r", "i", "n", "t", " ",
      "2", ";">>

\* var x = 1 print x;
SrcDeclareNoSemi ==
    <<"v", "a", "r", " ", "x", " ", "=", " ", "1", " ", "p", "r", "i", "n",
      "t", " ", "x", ";">>

\* var x = 1; x = 2 print x;
SrcAssignNoSemi ==
    <<"v", "a", "r", " ", "x", " ", "=", " ", "1", ";", " ", "x", " ", "=",
      " ", "2", " ", "p", "r", "i", "n", "t", " ", "x", ";">>

\* { print 1 print 2; }
SrcBlockNoSemi ==
    <<"{", " ", "p", "r", "i", "n", "t", " ", "1", " ", "p", "r", "i", "n",
      "t", " ", "2", ";", " ", "}">>

\* statements followed by another statement without `;` between them
NoSemiSources ==
    {SrcExprNoSemi, SrcPrintNoSemi, SrcDeclareNoSemi, SrcAssignNoSemi, SrcBlockNoSemi}

\* expression statements
ExprSources ==
    {SrcNumber, SrcNumber12, SrcString, SrcStringTwoWords, SrcTrue, SrcNil, SrcIdentifier, SrcSum, SrcNegation, SrcNot, SrcGroup, SrcEquality, SrcOr, SrcSumProduct}

\* other statements
StmtSources ==
    {SrcPrint, SrcPrint12, SrcDeclare, SrcAssign, SrcBlock, SrcIf, SrcTwoPrints, SrcPrintSum, SrcPrintString,
     SrcDeclareNoInit} \cup NoSemiSources

\* the command and the file that main is started with
Commands ==
    ({"tokenize", "parse", "evaluate", "run"} \X (ExprSources \cup StmtSources))
    \cup ({"tokenize", "evaluate"} \X ForSources)

\* main.rs: the arguments, the file contents, Scanner::new(&file_contents)
InitCommand ==
    \E c \in Commands :
      /\ command = c[1]
      /\ source = c[2]
      /\ chars = source
      /\ line = 1
      /\ phase = "scan"
      /\ tokens = <<>>
      /\ current = 0
      /\ had_error = FALSE
      /\ statements = <<>>
      /\ pc = 1
      /\ store = <<>>
      /\ environment = NoEnv
      /\ out = <<>>
      /\ err = <<>>
      /\ exitcode = <<>>
      /\ last = Step("init", NoStmt, NoEnv, Ok(Nil, <<>>))

NextCommand ==
    \/ ScanToken
    \/ ScanEnd
    \/ ParseStatement
    \/ ParseEnd
    \/ EvaluateStatement
    \/ EvaluateEnd
    \/ RunStatement
    \/ Finish

SpecCommand == InitCommand /\ [][NextCommand]_vars

-----------------------------------------------------------------------------
(* Parser::parse on every token list that ends in Eof, up to MaxTokens     *)
(* tokens before it                                                        *)

MaxTokens == 3

TokenKinds ==
    {Tok("LeftBrace", "{"), Tok("RightBrace", "}"), Tok("LeftParen", "("),
     Tok("RightParen", ")"), Tok("Var", "var"), Tok("Identifier", "x"),
     Tok("Equal", "="), Semi, NumTok(1), Tok("For", "for")}

TokenLists ==
    UNION {{w \o <<EofTok>> : w \in [1..n -> TokenKinds]} : n \in 0..MaxTokens}

InitTokens == InitParse(TokenLists)

SpecParser == InitTokens /\ [][Next]_vars

-----------------------------------------------------------------------------
(* Vocabulary of the properties *)

\* the scopes of the chain of handle h that bind name; the chain of h is
\* 1..h, as ChainShape states
Binders(st, h, name) == {i \in 1..h : name \in DOMAIN st[i].values}

Max(S) == CHOOSE m \in S : \A i \in S : i <= m

Innermost(st, h, name) == Max(Binders(st, h, name))

\* every scope but the global one is enclosed by the scope allocated before it
ChainShape ==
    /\ Len(store) >= 1
    /\ environment = Len(store)
    /\ \A i \in 1..Len(store) : store[i].enclosing = i - 1

IsLit(s) == s.k = "Expr" /\ s.expr.k = "Literal" /\ s.expr.token.token_type.k = "Number"
LitValue(s) == Number(s.expr.token.token_type.n)
IsGet(s) == s.k = "Expr" /\ s.expr.k = "Literal"
            /\ s.expr.token.token_type.k = "Identifier"
IsAssignLit(s) == s.k = "Assign" /\ IsLit(s.stmt)
IsDeclareLit(s) == s.k = "Declare" /\ IsLit(s.stmt)

\* the step taken is the evaluation of a statement of the set S
Evaluated(S) == last'.step = "evaluate" /\ last'.stmt \in S

\* the value a literal token of a program denotes
ValueOf(tok) ==
    CASE tok.token_type.k = "Nil" -> Nil
      [] tok.token_type.k = "True" -> Boolean(TRUE)
      [] tok.token_type.k = "False" -> Boolean(FALSE)
      [] tok.token_type.k = "Number" -> Number(tok.token_type.n)
      [] tok.token_type.k = "String" -> String(tok.token_type.s)

\* the falsy values: nil and false; every other value is truthy
Falsy(v) == v = Nil \/ v = Boolean(FALSE)

\* the Literal node of a literal token: a string literal carries its
\* contents without the quotes
LiteralOf(tok) ==
    Expr_Literal(IF tok.token_type.k = "String"
                 THEN Token(tok.token_type, tok.token_type.s, tok.line)
                 ELSE tok)

-----------------------------------------------------------------------------
(* C1: short-circuit.  When `var x = nil; L op (R); print x;` has run,     *)
(* with `or` and a truthy L or with `and` and a falsy L, no assignment,    *)
(* declaration or print contained in R has taken effect: the run ends with *)
(* exit code 0, the only line printed is the `nil` of x, and the global    *)
(* scope binds x to nil and nothing else.                                  *)

C1_ShortCircuit ==
    \A L \in ValueTokens : \A op \in {OrTok, AndTok} : \A R \in SideEffects :
       (/\ tokens = ShortCircuitProgram(L, op, R)
        /\ phase = "done"
        /\ (IF op = OrTok THEN ~Falsy(ValueOf(L)) ELSE Falsy(ValueOf(L))))
       => /\ exitcode = <<0>>
          /\ out = <<"nil">>
          /\ store = <<[values |-> [n \in {"x"} |-> Nil], enclosing |-> NoEnv]>>

-----------------------------------------------------------------------------
(* C2: for every pair of values L and R, `L or R` evaluates to L itself    *)
(* when L is truthy and to R itself otherwise; the result is never coerced *)
(* to a Boolean.                                                           *)

C2_OrOperand ==
    \A L \in ValueTokens : \A R \in ValueTokens :
       (tokens = BinaryProgram(L, OrTok, R) /\ last.step = "evaluate")
       => /\ last.ok
          /\ last.value = IF Falsy(ValueOf(L)) THEN ValueOf(R) ELSE ValueOf(L)

-----------------------------------------------------------------------------
(* C3: for every pair of values L and R, `L and R` parses to a Binary node *)
(* with the operator `and`, and evaluates without error to L when L is     *)
(* falsy and to R otherwise.                                               *)

C3_AndOperand ==
    \A L \in ValueTokens : \A R \in ValueTokens :
       tokens = BinaryProgram(L, AndTok, R)
       => /\ phase # "parse"
             => /\ ~had_error
                /\ statements =
                     <<Stmt_Expr(Expr_Binary(LiteralOf(L), AndTok, LiteralOf(R)))>>
          /\ last.step = "evaluate"
             => /\ last.ok
                /\ last.value = IF Falsy(ValueOf(L)) THEN ValueOf(L) ELSE ValueOf(R)

-----------------------------------------------------------------------------
(* C4: a block shares its enclosing environment.  A statement made of     *)
(* nested blocks around `n = 2` rewrites the binding of n in the scope     *)
(* that encloses the blocks (and fails, changing nothing, when n is        *)
(* unbound); `{ var n = 1; m = 2; }` with another name m leaves m = 2 in   *)
(* the enclosing scope; and a top-level `print n` prints what the earlier  *)
(* top-level statements left in n.                                         *)

C4_BlockStep ==
    /\ \A d \in 1..MaxNest, n \in Names :
          Evaluated({Nest(d, Stmt_Assign(n, Num(2)))}) =>
             IF n \in DOMAIN store[1].values
             THEN /\ last'.ok
                  /\ store' = [store EXCEPT ![1].values[n] = Number(2)]
             ELSE /\ exitcode' = <<70>>
                  /\ store' = store
    /\ \A n \in Names : \A m \in Names \ {n} :
          (/\ Evaluated({Stmt_Block(<<Stmt_Declare(n, Num(1)),
                                      Stmt_Assign(m, Num(2))>>)})
           /\ m \in DOMAIN store[1].values)
             => /\ last'.ok
                /\ store' = [store EXCEPT ![1].values[m] = Number(2)]
    /\ \A s \in DeclareStmts :
          Evaluated({s}) =>
             store' = [store EXCEPT ![1].values = Insert(@, s.var, LitValue(s.stmt))]
    /\ \A n \in Names :
          (Evaluated({Stmt_Print(Ident(n))}) /\ n \in DOMAIN store[1].values)
             => /\ last'.ok
                /\ out' = Append(out, Value_fmt(store[1].values[n]))
                /\ store' = store

-----------------------------------------------------------------------------
(* C5: a declaration inside a block creates the binding in the scope of   *)
(* the block.  After `{ var n = 1; ... }` the enclosing scope holds the    *)
(* names it held before and n keeps its outer value; inside the block the  *)
(* new binding shadows the outer one: `print n` prints 1 and `n = 2`       *)
(* leaves the outer n alone.                                               *)

C5_ShadowStep ==
    \A n \in Names, m \in Names :
       LET assigns == Stmt_Block(<<Stmt_Declare(n, Num(1)), Stmt_Assign(m, Num(2))>>)
           prints == Stmt_Block(<<Stmt_Declare(n, Num(1)), Stmt_Print(Ident(m))>>)
       IN /\ Evaluated({assigns, prints}) =>
                /\ Len(store') = Len(store)
                /\ DOMAIN store'[1].values = DOMAIN store[1].values
                /\ n \in DOMAIN store[1].values =>
                       store'[1].values[n] = store[1].values[n]
          /\ (Evaluated({prints}) /\ m = n) =>
                /\ last'.ok
                /\ out' = Append(out, "1")
                /\ store' = store
          /\ (Evaluated({assigns}) /\ m = n) =>
                /\ last'.ok
                /\ store' = store

C5_DeclareInBlockScope == [][C5_ShadowStep]_vars

\* `{ var x = 1; print x; }` has printed 1 while the global x is 2
C5_Witness ==
    /\ last.step = "evaluate"
    /\ last.stmt = Stmt_Block(<<Stmt_Declare("x", Num(1)), Stmt_Print(Ident("x"))>>)
    /\ last.ok
    /\ "x" \in DOMAIN store[1].values
    /\ store[1].values["x"] = Number(2)
    /\ out = <<"1">>

-----------------------------------------------------------------------------
(* C6: get(name) returns the value of the innermost scope of the chain    *)
(* that binds name, and fails with the undefined-variable error and exit   *)
(* code 70 exactly when no scope of the chain binds it.                    *)

C6_GetInnermost ==
    /\ ChainShape
    /\ (last.step = "evaluate" /\ IsGet(last.stmt)) =>
          LET name == last.stmt.expr.token.lexeme
              B == Binders(store, last.env, name)
          IN IF B = {}
             THEN /\ ~last.ok
                  /\ last.code = 70
                  /\ exitcode = <<70>>
                  /\ err = <<UndefinedVariable(name)>>
             ELSE /\ last.ok
                  /\ last.value = store[Max(B)].values[name]
                  /\ exitcode = <<>>
                  /\ err = <<>>

\* x was read in a block that shadows the global x: the inner value came back
C6_Witness ==
    /\ last.step = "evaluate"
    /\ last.stmt = Ident("x")
    /\ last.env = 2
    /\ Binders(store, 2, "x") = {1, 2}
    /\ store[1].values["x"] = Number(1)
    /\ store[2].values["x"] = Number(2)
    /\ last.value = Number(2)

-----------------------------------------------------------------------------
(* C7: assign(name, value) on a chain that binds name rewrites the        *)
(* binding of the innermost scope that binds it and changes nothing else.  *)

C7_AssignStep ==
    \A s \in AssignStmts :
       (Evaluated({s}) /\ Binders(store, environment, s.var) # {}) =>
          /\ last'.ok
          /\ last'.value = LitValue(s.stmt)
          /\ store' = [store EXCEPT
                ![Innermost(store, environment, s.var)].values[s.var] =
                    LitValue(s.stmt)]
          /\ exitcode' = <<>>

C7_AssignFrame == [][C7_AssignStep]_vars

\* `x = 2` ran in a block that has no x of its own, with y bound there: the
\* global x is 2
C7_Witness ==
    /\ last.step = "evaluate"
    /\ last.stmt = Stmt_Assign("x", Num(2))
    /\ last.env = 2
    /\ last.ok
    /\ Len(store) = 2
    /\ DOMAIN store[2].values = {"y"}
    /\ DOMAIN store[1].values = {"x", "y"}
    /\ store[1].values["x"] = Number(2)
    /\ store[1].values["y"] = Number(1)

-----------------------------------------------------------------------------
(* C8: an Assign statement whose name no scope of the chain binds.         *)

\* C8 as claimed: the statement fails with exit code 70 and every scope is
\* as before
C8_AssignUnboundStep ==
    \A s \in AssignStmts \cup NestedAssignStmts :
       (Evaluated({s}) /\ Binders(store, environment, s.var) = {}) =>
          /\ exitcode' = <<70>>
          /\ store' = store

C8_AssignUnboundAsClaimed == [][C8_AssignUnboundStep]_vars

\* C8 as amended: when the right-hand side has been evaluated and no scope
\* of the chain binds the name then, the statement fails with the undefined
\* variable error and exit code 70, and every scope is as the evaluation of
\* the right-hand side left it: the binding is not created
C8_AssignUnboundAfterRhsStep ==
    \A s \in AssignStmts \cup NestedAssignStmts :
       LET rhs == Stmt_evaluate(s.stmt, environment, World) IN
       (Evaluated({s}) /\ rhs.ok
            /\ Binders(rhs.w.store, environment, s.var) = {}) =>
          /\ ~last'.ok
          /\ exitcode' = <<70>>
          /\ err' = Append(err, UndefinedVariable(s.var))
          /\ store' = rhs.w.store
          /\ Binders(store', environment, s.var) = {}

C8_AssignUnboundAfterRhs == [][C8_AssignUnboundAfterRhsStep]_vars

\* `y = (x = 2)` failed in a block, y unbound in both scopes, after its
\* right-hand side had set the global x
C8_Witness ==
    /\ last.step = "evaluate"
    /\ last.stmt = Stmt_Assign("y", Stmt_Expr(Expr_Group(Stmt_Assign("x", Num(2)))))
    /\ last.env = 2
    /\ ~last.ok
    /\ exitcode = <<70>>
    /\ Binders(store, 2, "y") = {}
    /\ "x" \in DOMAIN store[1].values
    /\ store[1].values["x"] = Number(2)

-----------------------------------------------------------------------------
(* C9: truthiness is uniform.  For every value v, `!v` evaluates without   *)
(* error to Boolean(true) when v is nil or false and to Boolean(false)     *)
(* otherwise: `!` of any string and of any number is false.                *)

C9_BangTruthiness ==
    \A v \in ValueTokens :
       (tokens = UnaryProgram(Tok("Bang", "!"), v) /\ last.step = "evaluate")
       => /\ last.ok
          /\ last.value = Boolean(Falsy(ValueOf(v)))

-----------------------------------------------------------------------------
(* C10: every error produced while a statement of a successfully parsed    *)
(* program is evaluated yields exit code 70; exit code 65 is produced only *)
(* by the errors the parser reported.                                      *)

C10_EvaluatorErrorsExit70 ==
    /\ (last.step = "evaluate" /\ ~last.ok) => exitcode = <<70>>
    /\ exitcode = <<65>> => (had_error /\ last.step = "parsed")

-----------------------------------------------------------------------------
(* C11: a runtime error aborts the run at the point of failure.  Once a    *)
(* statement has failed, no later statement runs, neither the rest of the  *)
(* enclosing block nor the following top-level statements: the output is   *)
(* the lines printed before the failure, the environment is as it was at   *)
(* the failure, and nothing changes afterwards.                            *)

\* the global scope that binds x to n and nothing else
GlobalX(n) == <<[values |-> [v \in {"x"} |-> Number(n)], enclosing |-> NoEnv]>>

\* the run of an abort program has failed: its output and its environment
C11_Aborted ==
    /\ \A F \in FailingStmts \cup {Braced(G) : G \in FailingStmts} :
          (tokens = AbortProgram(F) /\ phase = "done")
          => /\ exitcode \in {<<70>>, <<65>>}
             /\ out = <<"1", "2">>
             /\ store = GlobalX(1)
    /\ \A F \in FailingStmts :
          (tokens = AbortTopProgram(F) /\ phase = "done")
          => /\ exitcode \in {<<70>>, <<65>>}
             /\ out = <<"1">>
             /\ store = GlobalX(1)

C11_AbortStep ==
    /\ C11_Aborted'
    /\ (exitcode # <<>> /\ exitcode # <<0>>) => UNCHANGED <<out, store, exitcode>>
    /\ (last'.step = "evaluate" /\ ~last'.ok) => (phase' = "done" /\ pc' = pc + 1)

C11_AbortAtFailure == [][C11_AbortStep]_vars

\* `z;` has failed inside the block after `print 2;`
C11_Witness ==
    /\ tokens = AbortProgram(<<IdTok("z"), Semi>>)
    /\ phase = "done"
    /\ exitcode = <<70>>
    /\ out = <<"1", "2">>
    /\ pc = 4
    /\ Len(statements) = 4

-----------------------------------------------------------------------------
\* C12: when a program is run and the scanner or the parser reported an
\* error, no statement is executed and nothing is printed: the parser starts
\* only after a scan without error, the evaluator only after a parse without
\* error, and the exit code is 65.
C12_GateStep ==
    command = "run" =>
      /\ had_error => had_error'
      /\ had_error' =>
           /\ out' = <<>>
           /\ store' = <<>>
           /\ phase' \in {"scan", "parse", "done"}
           /\ phase' = "done" => exitcode' = <<65>>
      /\ (phase # "parse" /\ phase' = "parse") =>
           (phase = "scan" /\ chars = <<>> /\ ~had_error /\ err = <<>>)
      /\ (phase # "run" /\ phase' = "run") =>
           (phase = "parse" /\ ~had_error /\ err = <<>>)
      /\ (phase' = "done" /\ exitcode' # <<65>>) => phase = "run"

C12_ErrorsGateTheRun == [][C12_GateStep]_vars

\* a print statement was parsed, the parser reported the `(` after it, and
\* the run ended with 65 and no output
C12_Witness ==
    /\ command = "run"
    /\ source = PrintOne \o <<"(">>
    /\ phase = "done"
    /\ Len(statements) = 1
    /\ had_error
    /\ out = <<>>
    /\ exitcode = <<65>>

-----------------------------------------------------------------------------
(* Vocabulary of the scanner claims *)

\* the scanner has just returned
Scanned == last.step = "scanned"

IsEof(tok) == tok.token_type.k = "Eof"

\* the character c is unexpected at the head of the main loop
Unexpected(c) ==
    c \notin DOMAIN SingleTokens \cup DOMAIN PairTokens \cup Digits \cup Letters
             \cup Whitespace \cup {"/", "\"", "_", "\n"}

NewlinesIn(cs) == Cardinality({i \in DOMAIN cs : cs[i] = "\n"})

HasQuote(cs) == \E i \in DOMAIN cs : cs[i] = "\""

-----------------------------------------------------------------------------
\* C13: a scanner run without error yields a token list with exactly one
\* Eof token, which is its last element, and the line numbers of the list
\* never decrease from one token to the next.
C13_OneEofLinesAscend ==
    (Scanned /\ last.ok) =>
      /\ tokens # <<>>
      /\ \A i \in DOMAIN tokens : IsEof(tokens[i]) <=> i = Len(tokens)
      /\ \A i \in 1..(Len(tokens) - 1) : tokens[i].line <= tokens[i + 1].line

\* a clean scan of three lines: a string over two lines, `;`, a number, Eof
C13_Witness ==
    /\ Scanned
    /\ last.ok
    /\ Len(tokens) = 4
    /\ tokens[1].token_type.k = "String"
    /\ <<tokens[1].line, tokens[2].line, tokens[3].line, tokens[4].line>>
         = <<2, 2, 3, 4>>

-----------------------------------------------------------------------------
\* C14: an unexpected character sets the error flag and the scan goes on
\* with the next character: the tokens already in the list stay, the turns
\* after it append what they append on a clean scanner, the flag is never
\* cleared while scanning, and "tokenize" ends with exit code 65 having
\* printed every token of the list.
C14_ContinueStep ==
    /\ (phase = "scan" /\ chars # <<>>) =>
         LET clean == Scanner_turn(source, [ScannerState EXCEPT
                                              !.had_error = FALSE])
         IN /\ tokens' = clean.tokens
            /\ chars' = clean.chars
            /\ line' = clean.line
            /\ had_error => had_error'
            /\ Unexpected(chars[1]) =>
                 /\ had_error'
                 /\ tokens' = tokens
                 /\ chars' = Tail(chars)
                 /\ line' = line
                 /\ phase' = "scan"
    /\ (phase = "scan" /\ chars = <<>> /\ had_error /\ command = "tokenize") =>
         /\ exitcode' = <<65>>
         /\ had_error'
         /\ Len(out') = Len(tokens) + 1
         /\ out' = PrintTokens(tokens')
         /\ SubSeq(tokens', 1, Len(tokens)) = tokens

C14_UnexpectedCharacterContinues == [][C14_ContinueStep]_vars

\* `@1+`: the number and the plus after the unexpected character are printed
C14_Witness ==
    /\ command = "tokenize"
    /\ source = <<"@", "1", "+">>
    /\ phase = "done"
    /\ had_error
    /\ exitcode = <<65>>
    /\ out = <<"NUMBER 1 1.0", "PLUS + null", "EOF  null">>

-----------------------------------------------------------------------------
\* C15: a string that reaches the end of the input without a closing quote
\* reports `Unterminated string.` with the line reached at the end of the
\* input (the line of the opening quote plus the newlines after it), adds no
\* token, sets the error flag and ends the scan, and the list then gets Eof
\* as its only further token.
C15_UnterminatedStep ==
    /\ (phase = "scan" /\ chars # <<>> /\ chars[1] = "\"" /\ ~HasQuote(Tail(chars))) =>
         /\ err' = Append(err, "[line " \o NatStr(line + NewlinesIn(chars))
                                \o "] Error: Unterminated string.")
         /\ line' = line + NewlinesIn(chars)
         /\ tokens' = tokens
         /\ chars' = <<>>
         /\ had_error'
         /\ phase' = "scan"
    /\ (phase = "scan" /\ chars = <<>>) =>
         /\ tokens' = Append(tokens, Scanner_eof(line))
         /\ had_error => (phase' = "done" /\ exitcode' = <<65>>)

C15_UnterminatedString == [][C15_UnterminatedStep]_vars

\* `1"` and a newline: the number, then Eof, and the report names line 2
C15_Witness ==
    /\ Scanned
    /\ source = <<"1", "\"", "\n">>
    /\ err = <<"[line 2] Error: Unterminated string.">>
    /\ Len(tokens) = 2
    /\ tokens[1].token_type.k = "Number"
    /\ IsEof(tokens[2])
    /\ exitcode = <<65>>

-----------------------------------------------------------------------------
\* the line of the last character of a source: a newline is the last
\* character of the line it ends
LineOfLastCharacter(src) ==
    1 + NewlinesIn(SubSeq(src, 1, Len(src) - 1))

\* C16: for every source that is not empty the final Eof token has an empty
\* lexeme and its line is the line of the last character of the source.
C16_EofLineOfLastCharacter ==
    (Scanned /\ source # <<>>) =>
      /\ IsEof(tokens[Len(tokens)])
      /\ tokens[Len(tokens)].lexeme = ""
      /\ tokens[Len(tokens)].line = LineOfLastCharacter(source)

-----------------------------------------------------------------------------
\* equality as the claims state it: the same type tag and the same payload
SameValue(a, b) ==
    /\ a.t = b.t
    /\ CASE a.t = "Number" -> a.n = b.n
         [] a.t = "Boolean" -> a.b = b.b
         [] a.t = "String" -> a.s = b.s
         [] a.t = "Nil" -> TRUE

\* C17: `==` and `!=` never fail and honour the type tags: `L == R` is true
\* exactly when L and R have the same tag and the same payload (so
\* `0 == false` and `"1" == 1` are false and `nil == nil` is true), and
\* `L != R` is the negation of `L == R`.
C17_EqualityByTag ==
    \A L \in Operands, R \in Operands :
      /\ (tokens = BinaryProgram(L, EqualEqualTok, R) /\ last.step = "evaluate") =>
           /\ last.ok
           /\ last.value = Boolean(SameValue(ValueOf(L), ValueOf(R)))
           /\ err = <<>>
      /\ (tokens = BinaryProgram(L, BangEqualTok, R) /\ last.step = "evaluate") =>
           /\ last.ok
           /\ last.value = Boolean(~SameValue(ValueOf(L), ValueOf(R)))
           /\ err = <<>>
      /\ (tokens \in {BinaryProgram(L, EqualEqualTok, R),
                      BinaryProgram(L, BangEqualTok, R)} /\ phase = "done") =>
           exitcode = <<0>>

\* `"1" == 1;` has been evaluated to false
C17_Witness ==
    /\ tokens = BinaryProgram(StrTok("1"), EqualEqualTok, NumTok(1))
    /\ last.step = "evaluate"
    /\ last.ok
    /\ last.value = Boolean(FALSE)

-----------------------------------------------------------------------------
\* C18: `+` is the numeric sum of two numbers and the concatenation, left
\* then right, of two strings; every other pair of operands fails with
\* `Operands must be two numbers or two strings.` and exit code 70.
C18_Plus ==
    \A L \in Operands, R \in Operands :
      (tokens = BinaryProgram(L, PlusTok, R) /\ last.step = "evaluate") =>
        LET l == ValueOf(L)
            r == ValueOf(R)
        IN IF l.t = "Number" /\ r.t = "Number"
           THEN last.ok /\ last.value = Number(l.n + r.n) /\ err = <<>>
           ELSE IF l.t = "String" /\ r.t = "String"
           THEN last.ok /\ last.value = String(l.s \o r.s) /\ err = <<>>
           ELSE /\ ~last.ok
                /\ err = <<"Operands must be two numbers or two strings.">>
                /\ exitcode = <<70>>
                /\ phase = "done"

\* `"a" + 1;` has failed with exit code 70
C18_Witness ==
    /\ tokens = BinaryProgram(StrTok("a"), PlusTok, NumTok(1))
    /\ last.step = "evaluate"
    /\ ~last.ok
    /\ exitcode = <<70>>

-----------------------------------------------------------------------------
(* Vocabulary of the parser claims *)

\* the position of the level of a binary operator: 1 for `or` up to 6 for
\* the factor operators
LevelOf(k) == CHOOSE i \in DOMAIN Levels : k \in LevelOps(Levels[i])

\* the parser has consumed the whole token list
Parsed == phase # "parse" \/ last.step = "parse"

Lit(n) == Expr_Literal(NumTok(n))

\* (op2 (op1 a b) c)  and  (op1 a (op2 b c))
LeftNested(a, op1, b, op2, c) ==
    Expr_Binary(Expr_Binary(a, OpTok(op1), b), OpTok(op2), c)
RightNested(a, op1, b, op2, c) ==
    Expr_Binary(a, OpTok(op1), Expr_Binary(b, OpTok(op2), c))

-----------------------------------------------------------------------------
\* C19: every binary level is left-associative: `a op1 b op2 c` with op1 and
\* op2 of the same level parses to Binary(Binary(a, op1, b), op2, c); in
\* particular `a or b or c` parses to (or (or a b) c).
C19_LeftAssociative ==
    \A op1 \in BinaryKinds, op2 \in BinaryKinds :
      (LevelOf(op1) = LevelOf(op2) /\ tokens = ChainProgram(op1, op2) /\ Parsed) =>
        statements = <<Stmt_Expr(LeftNested(Lit(4), op1, Lit(2), op2, Lit(1)))>>

-----------------------------------------------------------------------------
\* C20: the levels bind in the order or < and < equality < comparison < term
\* < factor < unary: in `a op1 b op2 c` with op1 and op2 of different levels
\* the operator of the higher level becomes an operand of the other
\* (`1 + 2 * 3` is (+ 1 (* 2 3)), `1 * 2 + 3` is (+ (* 1 2) 3)), and a unary
\* operator takes the operand next to it before any binary operator does.
C20_Precedence ==
    /\ \A op1 \in BinaryKinds, op2 \in BinaryKinds :
         (LevelOf(op1) # LevelOf(op2) /\ tokens = ChainProgram(op1, op2) /\ Parsed) =>
           statements =
             <<Stmt_Expr(IF LevelOf(op1) < LevelOf(op2)
                         THEN RightNested(Lit(4), op1, Lit(2), op2, Lit(1))
                         ELSE LeftNested(Lit(4), op1, Lit(2), op2, Lit(1)))>>
    /\ \A u \in {"Bang", "Minus"}, op \in BinaryKinds :
         (tokens = PrefixProgram(u, op) /\ Parsed) =>
           statements =
             <<Stmt_Expr(Expr_Binary(Expr_Unary(OpTok(u), Lit(4)), OpTok(op), Lit(2)))>>

\* `4 + 2 * 1;` has been parsed to (+ 4 (* 2 1))
C20_Witness ==
    /\ tokens = ChainProgram("Plus", "Star")
    /\ last.step = "parse"
    /\ statements = <<Stmt_Expr(RightNested(Lit(4), "Plus", Lit(2), "Star", Lit(1)))>>

-----------------------------------------------------------------------------
\* Parser::parse has just returned
ParseReturned == last.step = "parsed"

\* C21: a for statement parses without error to a For node whichever of its
\* three clauses are empty: for each choice of initializer, condition and
\* increment, present or absent, the parser reports nothing and the list is
\* the one For node with the absent clauses absent and `print i;` as body.
C21_ForClauses ==
    \A i \in ForInitializers, c \in ForConditions, r \in ForIncrements :
      (source = ForSource(i, c, r) /\ ParseReturned) =>
        /\ ~had_error
        /\ statements = <<Stmt_For(i.node, c.node, r.node, ForBody)>>

-----------------------------------------------------------------------------
\* C22: a declaration without initializer, `var a;`, parses without error
\* and, when run, defines a with the value Nil in the current scope, so the
\* `print a;` after it prints `nil` and the run ends with exit code 0.
C22_DeclareWithoutInitializer ==
    (source = SrcDeclareNoInit /\ command = "run") =>
      /\ ParseReturned => (~had_error /\ err = <<>> /\ Len(statements) = 2)
      /\ phase = "done" =>
           /\ exitcode = <<0>>
           /\ out = <<"nil">>
           /\ store = <<[values |-> [v \in {"a"} |-> Nil], enclosing |-> NoEnv]>>

-----------------------------------------------------------------------------
\* C23: a `;` is required after an expression, print, declaration or
\* assignment statement that another statement follows, at top level and in
\* a block: when the `;` is missing the parser sets its error flag and the
\* exit code is 65.
C23_SemicolonRequired ==
    (source \in NoSemiSources /\ command # "tokenize") =>
      /\ ParseReturned => had_error
      /\ phase = "done" => exitcode = <<65>>

-----------------------------------------------------------------------------
\* C24: the two number formatters differ: an integral number is written
\* with `.0` in the literal column of the tokenize dump and in the AST of
\* the parse dump, and without a fractional part in the output of `print`.
C24_NumberFormatters ==
    phase = "done" =>
      /\ (source = SrcNumber12 /\ command = "tokenize") =>
           out = <<"NUMBER 12 12.0", "SEMICOLON ; null", "EOF  null">>
      /\ (source = SrcNumber12 /\ command = "parse") => out = <<"12.0">>
      /\ (source = SrcPrint12 /\ command = "parse") => out = <<"print 12.0">>
      /\ (source = SrcPrint12 /\ command = "run") => out = <<"12">>

-----------------------------------------------------------------------------
\* C25: printing is idempotent under re-parsing: for every statement list
\* that parsed without error, the text that `parse` prints scans and parses
\* without error to a statement list that prints as the same text.
C25_PrintParsePrint ==
    (command = "parse" /\ phase = "done" /\ exitcode = <<0>>) =>
      LET text == PrintStatements(statements)
          scanned == Scanner_tokenize(text, Scanner_new(text))
          parsed == Parser_parse(scanned.tokens, Parser_new, <<>>)
      IN /\ ~scanned.had_error
         /\ ~parsed.p.had_error
         /\ PrintStatements(parsed.statements) = text

-----------------------------------------------------------------------------
\* the global scope that binds x to the value v and nothing else
GlobalXIs(v) == <<[values |-> [n \in {"x"} |-> v], enclosing |-> NoEnv]>>

\* C26: a binary expression with an operator other than `and` and `or`
\* evaluates its left operand completely, then its right operand, and then
\* applies the operator: when the left operand fails nothing of the right
\* operand takes effect, the effects of the left operand precede those of
\* the right, and a type error of the operator comes after the effects of
\* both operands.
C26_LeftThenRight ==
    phase = "done" =>
      \A op \in OrderOps :
        /\ \A R \in {PrintOf(2), AssignOf(NumTok(2)), AssignOf(StrTok("a"))} :
             tokens = OrderProgram(Undefined, op, R) =>
               /\ exitcode = <<70>>
               /\ out = <<>>
               /\ store = GlobalXIs(Number(0))
               /\ Len(err) = 1
        /\ tokens = OrderProgram(PrintOf(1), op, PrintOf(2)) =>
             /\ out = <<"1", "2">>
             /\ exitcode = IF op = "EqualEqual" THEN <<0>> ELSE <<70>>
             /\ Len(err) = IF op = "EqualEqual" THEN 0 ELSE 1
        /\ tokens = OrderProgram(AssignOf(NumTok(1)), op, AssignOf(NumTok(2))) =>
             /\ store = GlobalXIs(Number(2))
             /\ exitcode = <<0>>
        /\ tokens = OrderProgram(AssignOf(NumTok(1)), op, AssignOf(StrTok("a"))) =>
             /\ store = GlobalXIs(String("a"))
             /\ exitcode = IF op = "EqualEqual" THEN <<0>> ELSE <<70>>
        /\ tokens = OrderProgram(PrintOf(1), op, AssignOf(NumTok(2))) =>
             /\ out = <<"1">>
             /\ store = GlobalXIs(Number(2))

\* `var x = 0; (print 1) + (print 2);` has printed 1, then 2, and then
\* failed on the operands of `+`
C26_Witness ==
    /\ tokens = OrderProgram(PrintOf(1), "Plus", PrintOf(2))
    /\ phase = "done"
    /\ out = <<"1", "2">>
    /\ exitcode = <<70>>
    /\ err = <<"Operands must be two numbers or two strings.">>

-----------------------------------------------------------------------------
\* C27: the parser never drops a statement silently: when the parse of a
\* top-level statement fails, and the statement is left out of the list,
\* the error flag is set, an empty block `{}` included, so that a parse that
\* returns Ok has put every token before Eof into a statement of the list.
C27_NoSilentDrop ==
    /\ (last.step = "parse" /\ ~last.ok) => had_error
    /\ (last.step = "parsed" /\ last.ok /\ tokens # <<EofTok>>) => statements # <<>>

-----------------------------------------------------------------------------
\* C28: on every token list that ends in Eof, Parser::parse keeps its cursor
\* inside the list and terminates: every iteration of the top-level loop,
\* whether it succeeds or fails, consumes at least one token, the cursor never
\* moves past the Eof token, and no index into the list (the previous token,
\* the token two places back) falls outside it, so the parser never panics.
\* The tokens left before Eof strictly decrease, which bounds the loop.
C28_Iteration ==
    (phase = "parse" /\ ~Parser_is_eof(tokens, ParserState)) =>
        /\ current' > current
        /\ current' + 1 \in DOMAIN tokens
        /\ ~Parser_parse_statement(tokens, ParserState).p.panic
        /\ exitcode' # <<101>>

C28_CursorInside ==
    /\ [](current + 1 \in DOMAIN tokens)
    /\ [][C28_Iteration]_vars

\* `var x ;`: the iteration has failed at the `;`, after reading the token
\* two places back at index 0, and has consumed `var` and `x`
C28_Witness ==
    /\ tokens = <<Tok("Var", "var"), Tok("Identifier", "x"), Semi, EofTok>>
    /\ last.step = "parse"
    /\ ~last.ok
    /\ current = 2
    /\ err = <<"[line 1] Error at 'var': Expect expression.">>
    /\ phase = "parse"

=============================================================================
